---- MODULE Spec2Model ----
(***************************************************************************)
(* A model of the tinydecred wallet core: the Account address cursor and   *)
(* UTXO ledger and the key derivation (accounts.py), the ScriptTokenizer,  *)
(* signing, signature hashes and script templates (pydecred/txscript.py),  *)
(* and the signals and the wallet sync of the application (app.py).        *)
(* Python lists and dicts are sequences (a dict keeps insertion order);    *)
(* Python indices are 0-based, the sequences here 1-based.                 *)
(***************************************************************************)
EXTENDS Integers, Sequences, FiniteSets, TLC

\* ------------------------------------------------------------------ bounds
MaxAddrs == 3
MaxChange == 1
MaxGap == 2
MaxSatoshis == 2
MaxRequested == 2
MaxTip == 2
MaxListLen == 2
MaxScriptLen == 5
MaxHeight == 2
MaxSecret == 255
MaxChainCode == 1
MaxDepth == 1
MaxPrivateKey == 16
MaxTxIn == 2
MaxTxOut == 2
MaxPubKeys == 2
MaxReceivers == 2
MaxQueue == 2
MaxBalance == 2

\* --------------------------------------------------------- program values
\* Python's None in a value position is the empty tuple and a value v is
\* <<v>>; an exception (a call's exc, the tokenizer's err) is a string, NoErr
\* when there is none.
None == <<>>
Some(v) == <<v>>
NoErr == "None"
EXTERNAL_BRANCH == 0
INTERNAL_BRANCH == 1
\* net.CoinbaseMaturity, scaled down.
CoinbaseMaturity == 2
\* An address is a pair <<origin, index>>.
CrazyAddress == <<"CRAZYADDRESS", 0>>
ForeignAddress == <<"foreign", 0>>
Txids == {"a", "b"}
Vouts == {0, 1}

VARIABLES acct, call, mem, tok, ret, loop, app

vars == <<acct, call, mem, tok, ret, loop, app>>

\* ---------------------------------------------------------------- helpers
Min(a, b) == IF a < b THEN a ELSE b
Max(a, b) == IF a > b THEN a ELSE b
Range(s) == {s[i] : i \in 1..Len(s)}
SeqsUpTo(S, n) == UNION {[1..k -> S] : k \in 0..n}

RECURSIVE Concat(_)
Concat(ss) == IF ss = <<>> THEN <<>> ELSE Head(ss) \o Concat(Tail(ss))

\* list.index(x): 0-based position of the first occurrence; only used when
\* x occurs (the ValueError case is tested by the caller).
pyIndex(s, x) == (CHOOSE i \in 1..Len(s) : s[i] = x /\ \A j \in 1..(i-1) : s[j] # x) - 1

\* ======================================================= TinyDecred (app)
\* The application object: the signal registry, Qt's queue of slot calls
\* for the main thread, the wallet with its mutex, and the threads.  An
\* entry of the registry is the tuple (cb, sigA, a, sigK, k) of
\* registerSignal without the keyword arguments, which are handled as the
\* positional ones are; sa is the list at index 1, shared by every emission.
\* invoked lists the callbacks the last step called, each with the arguments
\* it received and, as own, the arguments of the emission it was called for
\* followed by the user arguments.
noApp ==
    [signalRegistry |-> <<>>,
     queue |-> <<>>,
     invoked |-> <<>>,
     emitter |-> [pc |-> "idle", sigA |-> <<>>, rest |-> <<>>],
     wallet |-> [set |-> FALSE, openAccount |-> FALSE],
     locked |-> FALSE, blocked |-> FALSE, lockCalls |-> 0, unlockCalls |-> 0,
     threads |-> 0, returned |-> 0,
     dcr |-> "connecting"]

\* The indices of the receivers of sig, in the order of sr[sig].
receivers(a, sig) ==
    LET sr == a.signalRegistry
        RECURSIVE from(_)
        from(i) == IF i > Len(sr) THEN <<>>
                   ELSE (IF sr[i].sig = sig THEN <<i>> ELSE <<>>) \o from(i + 1)
    IN from(1)

\* emitSignal called in the main thread, where the receiver lives: emit()
\* calls the slot signal_ at once, for each receiver in turn, after the
\* receiver's sa was cleared and filled with sigA.
emitSignal(a, sig, sigA) ==
    LET rs == receivers(a, sig)
    IN [a EXCEPT !.signalRegistry =
                    [i \in 1..Len(@) |-> IF @[i].sig = sig THEN [@[i] EXCEPT !.sa = sigA]
                                         ELSE @[i]],
                 !.invoked = @ \o [j \in 1..Len(rs) |->
                                     [cb |-> a.signalRegistry[rs[j]].cb,
                                      args |-> sigA \o a.signalRegistry[rs[j]].a,
                                      own |-> sigA \o a.signalRegistry[rs[j]].a]]]

\* tryInitSync.  self.dcrdata is set in __init__ and never unset.
\* wallet.lock() acquires the wallet's mutex: called while the mutex is held,
\* it does not return, and the main thread is blocked from then on.
tryInitSync(a) ==
    IF a.wallet.set /\ a.wallet.openAccount
    THEN IF a.locked
         THEN [a EXCEPT !.lockCalls = @ + 1, !.blocked = TRUE]
         ELSE [emitSignal([a EXCEPT !.lockCalls = @ + 1, !.locked = TRUE],
                          "WORKING_SIGNAL", <<>>)
                 EXCEPT !.threads = @ + 1]
    ELSE a

\* ================================================================ Account
\* Account.__init__: a closed account with empty ledger.
newAccount ==
    [ lastExternalIndex |-> -1,
      lastInternalIndex |-> -1,
      externalAddresses |-> <<>>,
      internalAddresses |-> <<>>,
      cursor |-> 0,
      balance |-> [total |-> 0, available |-> 0],
      txs |-> <<>>,
      utxos |-> <<>>,
      mempool |-> <<>>,
      privKey |-> None,
      extPub |-> None,
      intPub |-> None ]

noCall == [op |-> "init", arg |-> None, ret |-> None, exc |-> NoErr]

\* ExtendedKey.deriveChildAddress: the address of child idx of a branch key;
\* distinct indices and branches give distinct addresses.
deriveChildAddress(branchKey, idx) == <<IF branchKey[1] = EXTERNAL_BRANCH THEN "ext" ELSE "int", idx>>

\* Account.open: the private key and the two branch public keys are set.
open(a) ==
    [a EXCEPT !.privKey = Some("priv"),
              !.extPub = Some(EXTERNAL_BRANCH),
              !.intPub = Some(INTERNAL_BRANCH)]

\* Account.close: the three keys are dropped.
close(a) ==
    [a EXCEPT !.privKey = None, !.extPub = None, !.intPub = None]

\* The ByteArray buffers of the account's three keys: key and pubKey of each.
KeyBuffers == {"privKey", "extPub", "intPub"} \X {"key", "pubKey"}

\* Memory outside the account record: live is the set of buffers the
\* account's keys hold with key bytes in them, leaked the set of buffers
\* that lost their last reference while they still held key bytes.
noBuffers == [live |-> {}, leaked |-> {}]

\* Account.open on the buffers: the three fields are assigned new keys; the
\* keys they held before lose their reference as they are.
openBuffers(m) ==
    [live |-> KeyBuffers, leaked |-> m.leaked \cup m.live]

\* A mutant that does not zero the public key of the internal branch.
closeBuffers_skipsPubKey(a, m) ==
    LET zeroed == IF a.privKey # None
                  THEN KeyBuffers \ {<<"intPub", "pubKey">>}
                  ELSE {}
    IN [live |-> {}, leaked |-> m.leaked \cup (m.live \ zeroed)]

\* Account.close on the buffers: under `if self.privKey` the six buffers are
\* zeroed; then the three fields are set to None.
closeBuffers(a, m) ==
    LET zeroed == IF a.privKey # None
                  THEN {<<"privKey", "key">>, <<"privKey", "pubKey">>,
                        <<"extPub", "key">>, <<"extPub", "pubKey">>,
                        <<"intPub", "key">>, <<"intPub", "pubKey">>}
                  ELSE {}
    IN [live |-> {}, leaked |-> m.leaked \cup (m.live \ zeroed)]

\* Account.addTxid: txs maps an address to its list of txids, no duplicates.
\* txs is a function whose domain is the set of tracked addresses.
txsKeys(a) == DOMAIN a.txs

addTxid(a, addr, txid) ==
    IF addr \notin txsKeys(a)
    THEN [a EXCEPT !.txs = [k \in DOMAIN a.txs \cup {addr} |->
                               IF k = addr THEN <<txid>> ELSE a.txs[k]]]
    ELSE IF txid \in Range(a.txs[addr])
    THEN a
    ELSE [a EXCEPT !.txs[addr] = Append(@, txid)]

\* A mutant that appends the address without advancing lastExternalIndex.
generateNextPaymentAddress_noIndex(a, cz) ==
    IF Len(a.externalAddresses) # a.lastExternalIndex + 1
    THEN [a |-> a, ret |-> None, exc |-> "index-address length mismatch"]
    ELSE IF a.extPub = None
    THEN [a |-> a, ret |-> None, exc |-> "AttributeError"]
    ELSE LET idx == a.lastExternalIndex + 1
             addr == IF idx \in cz THEN CrazyAddress
                     ELSE deriveChildAddress(a.extPub, idx)
         IN [a |-> [a EXCEPT !.externalAddresses = Append(@, addr)],
             ret |-> Some(addr), exc |-> NoErr]

\* A mutant that lets the ParameterRangeError of the derivation escape.
generateNextPaymentAddress_raises(a, cz) ==
    IF Len(a.externalAddresses) # a.lastExternalIndex + 1
    THEN [a |-> a, ret |-> None, exc |-> "index-address length mismatch"]
    ELSE IF a.extPub = None
    THEN [a |-> a, ret |-> None, exc |-> "AttributeError"]
    ELSE LET idx == a.lastExternalIndex + 1
         IN IF idx \in cz
            THEN [a |-> a, ret |-> None, exc |-> "ParameterRangeError"]
            ELSE [a |-> [a EXCEPT !.externalAddresses =
                                      Append(@, deriveChildAddress(a.extPub, idx)),
                                  !.lastExternalIndex = idx],
                  ret |-> Some(deriveChildAddress(a.extPub, idx)), exc |-> NoErr]

\* Account.generateNextPaymentAddress.  cz is the set of child indices whose
\* derivation raises ParameterRangeError.  On a closed account extPub is None
\* and the attribute access raises before anything is appended.
generateNextPaymentAddress(a, cz) ==
    IF Len(a.externalAddresses) # a.lastExternalIndex + 1
    THEN [a |-> a, ret |-> None, exc |-> "index-address length mismatch"]
    ELSE IF a.extPub = None
    THEN [a |-> a, ret |-> None, exc |-> "AttributeError"]
    ELSE LET idx == a.lastExternalIndex + 1
             addr == IF idx \in cz THEN CrazyAddress
                     ELSE deriveChildAddress(a.extPub, idx)
         IN [a |-> [a EXCEPT !.externalAddresses = Append(@, addr),
                             !.lastExternalIndex = idx],
             ret |-> Some(addr), exc |-> NoErr]

\* The loop `while len(self.externalAddresses) < n: generateNextPaymentAddress()`
\* of getNextPaymentAddress (n = cursor + 1) and generateGapAddresses (n = tip);
\* an exception leaves the loop with the account as it is at that point.
RECURSIVE generateWhileBelow(_, _, _)
generateWhileBelow(a, n, cz) ==
    IF Len(a.externalAddresses) >= n
    THEN [a |-> a, exc |-> NoErr]
    ELSE LET r == generateNextPaymentAddress(a, cz)
         IN IF r.exc # NoErr
            THEN [a |-> r.a, exc |-> r.exc]
            ELSE generateWhileBelow(r.a, n, cz)

\* A mutant that generates one address more than the cursor needs.
getNextPaymentAddress_extra(a, cz) ==
    LET a1 == [a EXCEPT !.cursor = @ + 1]
        r == generateWhileBelow(a1, a1.cursor + 2, cz)
    IN IF r.exc # NoErr
       THEN [a |-> r.a, ret |-> None, exc |-> r.exc]
       ELSE [a |-> r.a, ret |-> Some(r.a.externalAddresses[r.a.cursor + 1]), exc |-> NoErr]

\* Account.getNextPaymentAddress: the cursor moves first, then addresses are
\* generated while the cursor is out of range.
getNextPaymentAddress(a, cz) ==
    LET a1 == [a EXCEPT !.cursor = @ + 1]
        r == generateWhileBelow(a1, a1.cursor + 1, cz)
    IN IF r.exc # NoErr
       THEN [a |-> r.a, ret |-> None, exc |-> r.exc]
       ELSE [a |-> r.a, ret |-> Some(r.a.externalAddresses[r.a.cursor + 1]), exc |-> NoErr]

\* The `highest` of generateGapAddresses: the largest index() in
\* externalAddresses of an address that is a key of txs, and 0 if none is.
highestTxIndex(a) ==
    LET found == {pyIndex(a.externalAddresses, ad) :
                     ad \in txsKeys(a) \cap Range(a.externalAddresses)}
    IN IF found = {} THEN 0 ELSE CHOOSE m \in found : \A x \in found : x <= m

\* Account.generateGapAddresses: a closed account only logs a warning and
\* then runs the same loop.
generateGapAddresses(a, gap, cz) ==
    LET tip == highestTxIndex(a) + gap
        r == generateWhileBelow(a, tip, cz)
    IN [a |-> r.a, ret |-> None, exc |-> r.exc]

\* A mutant that appends the address without advancing lastInternalIndex.
getChangeAddress_noIndex(a, cz) ==
    IF Len(a.internalAddresses) # a.lastInternalIndex + 1
    THEN [a |-> a, ret |-> None,
          exc |-> "index-address length mismatch while generating change address"]
    ELSE IF a.intPub = None
    THEN [a |-> a, ret |-> None, exc |-> "AttributeError"]
    ELSE LET idx == a.lastInternalIndex + 1
             addr == IF idx \in cz THEN CrazyAddress
                     ELSE deriveChildAddress(a.intPub, idx)
         IN [a |-> [a EXCEPT !.internalAddresses = Append(@, addr)],
             ret |-> Some(addr), exc |-> NoErr]

\* Account.getChangeAddress.
getChangeAddress(a, cz) ==
    IF Len(a.internalAddresses) # a.lastInternalIndex + 1
    THEN [a |-> a, ret |-> None,
          exc |-> "index-address length mismatch while generating change address"]
    ELSE IF a.intPub = None
    THEN [a |-> a, ret |-> None, exc |-> "AttributeError"]
    ELSE LET idx == a.lastInternalIndex + 1
             addr == IF idx \in cz THEN CrazyAddress
                     ELSE deriveChildAddress(a.intPub, idx)
         IN [a |-> [a EXCEPT !.internalAddresses = Append(@, addr),
                             !.lastInternalIndex = idx],
             ret |-> Some(addr), exc |-> NoErr]

\* Account.paymentAddress: externalAddresses[cursor], IndexError out of range.
paymentAddress(a) ==
    IF a.cursor < Len(a.externalAddresses)
    THEN [a |-> a, ret |-> Some(a.externalAddresses[a.cursor + 1]), exc |-> NoErr]
    ELSE [a |-> a, ret |-> None, exc |-> "IndexError"]

\* ------------------------------------------------- actions of the account
\* The sets of child indices that may fail to derive: an index below the
\* length of the list is never derived again.
CrazySets(a) == SUBSET (Len(a.externalAddresses)..(MaxAddrs - 1))

Open ==
    /\ acct' = open(acct)
    /\ mem' = openBuffers(mem)
    /\ call' = [op |-> "open", arg |-> None, ret |-> None, exc |-> NoErr]
    /\ UNCHANGED <<tok, ret, loop, app>>

Close ==
    /\ acct' = close(acct)
    /\ mem' = closeBuffers(acct, mem)
    /\ call' = [op |-> "close", arg |-> Some(acct.privKey # None),
                ret |-> None, exc |-> NoErr]
    /\ UNCHANGED <<tok, ret, loop, app>>

AddTxid ==
    \E addr \in Range(acct.externalAddresses) \cup {ForeignAddress} :
       /\ acct' = addTxid(acct, addr, "a")
       /\ call' = [op |-> "addTxid", arg |-> Some(addr), ret |-> None, exc |-> NoErr]
       /\ UNCHANGED <<mem, tok, ret, loop, app>>

GenerateNextPaymentAddress ==
    /\ Len(acct.externalAddresses) < MaxAddrs
    /\ \E cz \in CrazySets(acct) :
          LET r == generateNextPaymentAddress(acct, cz)
          IN /\ acct' = r.a
             /\ call' = [op |-> "generateNextPaymentAddress",
                         arg |-> IF acct.extPub = None THEN None
                                 ELSE Some((acct.lastExternalIndex + 1) \in cz),
                         ret |-> r.ret, exc |-> r.exc]
    /\ UNCHANGED <<mem, tok, ret, loop, app>>

GetNextPaymentAddress ==
    /\ acct.cursor + 1 < MaxAddrs
    /\ \E cz \in CrazySets(acct) :
          LET r == getNextPaymentAddress(acct, cz)
          IN /\ acct' = r.a
             /\ call' = [op |-> "getNextPaymentAddress", arg |-> None,
                         ret |-> r.ret, exc |-> r.exc]
    /\ UNCHANGED <<mem, tok, ret, loop, app>>

GenerateGapAddresses ==
    \E gap \in 0..MaxGap :
       /\ highestTxIndex(acct) + gap <= MaxAddrs
       /\ \E cz \in CrazySets(acct) :
             LET r == generateGapAddresses(acct, gap, cz)
             IN /\ acct' = r.a
                /\ call' = [op |-> "generateGapAddresses", arg |-> Some(gap),
                            ret |-> r.ret, exc |-> r.exc]
       /\ UNCHANGED <<mem, tok, ret, loop, app>>

GetChangeAddress ==
    /\ Len(acct.internalAddresses) < MaxChange
    /\ \E cz \in SUBSET (0..(MaxChange - 1)) :
          LET r == getChangeAddress(acct, cz)
          IN /\ acct' = r.a
             /\ call' = [op |-> "getChangeAddress",
                         arg |-> IF acct.intPub = None THEN None
                                 ELSE Some((acct.lastInternalIndex + 1) \in cz),
                         ret |-> r.ret, exc |-> r.exc]
    /\ UNCHANGED <<mem, tok, ret, loop, app>>

PaymentAddress ==
    LET r == paymentAddress(acct)
    IN /\ acct' = r.a
       /\ call' = [op |-> "paymentAddress", arg |-> None,
                   ret |-> r.ret, exc |-> r.exc]
       /\ UNCHANGED <<mem, tok, ret, loop, app>>

\* ================================================================= ledger
\* api.UTXO: the fields the ledger reads.  height is -1 while unconfirmed;
\* maturity is None for an output that is not coinbase-derived.
UTXO(txid, vout, satoshis, height, maturity) ==
    [txid |-> txid, vout |-> vout, satoshis |-> satoshis,
     height |-> height, maturity |-> maturity]

\* UTXO.makeKey / UTXO.key: the key "txid#vout".
makeKey(txid, vout) == <<txid, vout>>
key(u) == makeKey(u.txid, u.vout)

\* UTXO.isSpendable: confirmed and not coinbase-derived, or past maturity.
isSpendable(u, tipHeight) ==
    \/ u.height # -1 /\ u.maturity = None
    \/ u.maturity # None /\ tipHeight >= u.maturity[1]

\* dict operations on a sequence of values with distinct keys.
dictKeys(d) == {key(d[i]) : i \in 1..Len(d)}
dictPos(d, k) == CHOOSE i \in 1..Len(d) : key(d[i]) = k

\* d[k] = v: a known key keeps its position, a new key goes last.
dictSet(d, k, v) ==
    IF k \in dictKeys(d)
    THEN [d EXCEPT ![dictPos(d, k)] = v]
    ELSE Append(d, v)

\* A mutant of pop that removes the entry but reports it as not found.
dictPop_noReturn(d, k) ==
    IF k \in dictKeys(d)
    THEN LET i == dictPos(d, k)
         IN [d |-> SubSeq(d, 1, i - 1) \o SubSeq(d, i + 1, Len(d)),
             ret |-> None]
    ELSE [d |-> d, ret |-> None]

\* d.pop(k, None).
dictPop(d, k) ==
    IF k \in dictKeys(d)
    THEN LET i == dictPos(d, k)
         IN [d |-> SubSeq(d, 1, i - 1) \o SubSeq(d, i + 1, Len(d)),
             ret |-> Some(d[i])]
    ELSE [d |-> d, ret |-> None]

\* Account.utxoscan: the values of utxos in dict order.
utxoscan(a) == a.utxos

\* Account.addUTXO.
addUTXO(a, utxo) ==
    [a |-> [a EXCEPT !.utxos = dictSet(@, key(utxo), utxo)],
     ret |-> None, exc |-> NoErr]

\* Account.spendUTXO.
spendUTXO(a, utxo) ==
    LET r == dictPop(a.utxos, key(utxo))
    IN [a |-> [a EXCEPT !.utxos = r.d], ret |-> r.ret, exc |-> NoErr]

\* Account.spendUTXOs: spends each listed UTXO in turn and returns nothing.
RECURSIVE spendUTXOs(_, _)
spendUTXOs(a, utxos) ==
    IF utxos = <<>>
    THEN [a |-> a, ret |-> None, exc |-> NoErr]
    ELSE spendUTXOs(spendUTXO(a, Head(utxos)).a, Tail(utxos))

\* Account.resolveUTXOs: self.utxos becomes the dict built from the list; a
\* repeated key keeps its first position and its last value.
RECURSIVE dictOf(_, _)
dictOf(d, us) ==
    IF us = <<>> THEN d
    ELSE dictOf(dictSet(d, key(Head(us)), Head(us)), Tail(us))

resolveUTXOs(a, blockchainUTXOs) ==
    [a |-> [a EXCEPT !.utxos = dictOf(<<>>, blockchainUTXOs)],
     ret |-> None, exc |-> NoErr]

\* Account.addMempoolTx.  mempool is a function from txid to transaction.
addMempoolTx(a, tx) ==
    [a |-> [a EXCEPT !.mempool = [k \in DOMAIN a.mempool \cup {tx.txid} |->
                                    IF k = tx.txid THEN tx ELSE a.mempool[k]]],
     ret |-> None, exc |-> NoErr]

\* Account.UTXOsForTXID: the positions in utxoscan() of the UTXOs of txid.
UTXOsForTXID(a, txid) == {i \in 1..Len(utxoscan(a)) : utxoscan(a)[i].txid = txid}

\* A mutant that sets the height of every UTXO of the account.
confirmTx_allUTXOs(a, tx, blockHeight) ==
    LET txid == tx.txid
        hit == 1..Len(a.utxos)
    IN [a |-> [a EXCEPT
                 !.mempool = [k \in DOMAIN a.mempool \ {txid} |-> a.mempool[k]],
                 !.utxos = [i \in 1..Len(a.utxos) |->
                              IF i \notin hit THEN a.utxos[i]
                              ELSE [a.utxos[i] EXCEPT
                                      !.height = blockHeight,
                                      !.maturity = IF tx.looksLikeCoinbase
                                                   THEN Some(blockHeight + CoinbaseMaturity)
                                                   ELSE @]]],
        ret |-> None, exc |-> NoErr]

\* Account.confirmTx: mempool.pop(txid, None), then every UTXO of the txid
\* gets the block height and, for a coinbase, its maturity height.
confirmTx(a, tx, blockHeight) ==
    LET txid == tx.txid
        hit == UTXOsForTXID(a, txid)
    IN [a |-> [a EXCEPT
                 !.mempool = [k \in DOMAIN a.mempool \ {txid} |-> a.mempool[k]],
                 !.utxos = [i \in 1..Len(a.utxos) |->
                              IF i \notin hit THEN a.utxos[i]
                              ELSE [a.utxos[i] EXCEPT
                                      !.height = blockHeight,
                                      !.maturity = IF tx.looksLikeCoinbase
                                                   THEN Some(blockHeight + CoinbaseMaturity)
                                                   ELSE @]]],
        ret |-> None, exc |-> NoErr]

\* Account.spendTxidVout.
spendTxidVout(a, txid, vout) ==
    LET r == dictPop(a.utxos, makeKey(txid, vout))
    IN [a |-> [a EXCEPT !.utxos = r.d], ret |-> r.ret, exc |-> NoErr]

\* sorted(pairs, key=value): a stable sort, built by inserting each element
\* after the elements already placed whose value is not larger.
RECURSIVE sortedByValue(_)
sortedByValue(us) ==
    IF us = <<>> THEN <<>>
    ELSE LET front == sortedByValue(SubSeq(us, 1, Len(us) - 1))
             u == us[Len(us)]
             n == Cardinality({i \in 1..Len(front) : front[i].satoshis <= u.satoshis})
         IN SubSeq(front, 1, n) \o <<u>> \o SubSeq(front, n + 1, Len(front))

\* A mutant of the selection loop that counts a rejected UTXO's value.
RECURSIVE collect_countsRejected(_, _, _, _, _, _)
collect_countsRejected(pairs, i, matches, collected, requested, approve) ==
    IF i > Len(pairs)
    THEN [matches |-> matches, collected |-> collected]
    ELSE LET utxo == pairs[i]
         IN IF approve # None /\ key(utxo) \notin approve[1]
            THEN collect_countsRejected(pairs, i + 1, matches,
                                        collected + utxo.satoshis, requested, approve)
            ELSE IF collected + utxo.satoshis >= requested
            THEN [matches |-> Append(matches, utxo),
                  collected |-> collected + utxo.satoshis]
            ELSE collect_countsRejected(pairs, i + 1, Append(matches, utxo),
                                        collected + utxo.satoshis, requested, approve)

\* The loop of getUTXOs over the sorted pairs from position i on.  approve is
\* None or Some(the set of keys the filter accepts).
RECURSIVE collect(_, _, _, _, _, _)
collect(pairs, i, matches, collected, requested, approve) ==
    IF i > Len(pairs)
    THEN [matches |-> matches, collected |-> collected]
    ELSE LET utxo == pairs[i]
         IN IF approve # None /\ key(utxo) \notin approve[1]
            THEN collect(pairs, i + 1, matches, collected, requested, approve)
            ELSE IF collected + utxo.satoshis >= requested
            THEN [matches |-> Append(matches, utxo),
                  collected |-> collected + utxo.satoshis]
            ELSE collect(pairs, i + 1, Append(matches, utxo),
                         collected + utxo.satoshis, requested, approve)

\* Account.getUTXOs.
getUTXOs(a, requested, approve) ==
    LET r == collect(sortedByValue(utxoscan(a)), 1, <<>>, 0, requested, approve)
    IN [a |-> a, ret |-> <<r.matches, r.collected >= requested>>, exc |-> NoErr]

\* A mutant of the balance loop that adds to avail before the spendable test.
RECURSIVE balanceLoop_noSkip(_, _, _, _, _)
balanceLoop_noSkip(us, i, tipHeight, tot, avail) ==
    IF i > Len(us)
    THEN [total |-> tot, available |-> avail]
    ELSE balanceLoop_noSkip(us, i + 1, tipHeight,
                            tot + us[i].satoshis, avail + us[i].satoshis)

\* The loop of calcBalance over utxoscan() from position i on.
RECURSIVE balanceLoop(_, _, _, _, _)
balanceLoop(us, i, tipHeight, tot, avail) ==
    IF i > Len(us)
    THEN [total |-> tot, available |-> avail]
    ELSE IF ~isSpendable(us[i], tipHeight)
    THEN balanceLoop(us, i + 1, tipHeight, tot + us[i].satoshis, avail)
    ELSE balanceLoop(us, i + 1, tipHeight,
                     tot + us[i].satoshis, avail + us[i].satoshis)

\* Account.calcBalance: the sums are stored in self.balance, which is returned.
calcBalance(a, tipHeight) ==
    LET b == balanceLoop(utxoscan(a), 1, tipHeight, 0, 0)
        a1 == [a EXCEPT !.balance = b]
    IN [a |-> a1, ret |-> a1.balance, exc |-> NoErr]

\* -------------------------------------------------- actions of the ledger
UtxoKeys == {makeKey("a", 0), makeKey("a", 1), makeKey("b", 0)}
Confirmations == {<<-1, None>>, <<1, None>>, <<1, Some(2)>>}
UTXOs ==
    {UTXO(k[1], k[2], v, c[1], c[2]) :
        k \in UtxoKeys, v \in 1..MaxSatoshis, c \in Confirmations}

AddUTXO ==
    \E u \in UTXOs :
       LET r == addUTXO(acct, u)
       IN /\ acct' = r.a
          /\ call' = [op |-> "addUTXO", arg |-> None, ret |-> r.ret, exc |-> r.exc]
          /\ UNCHANGED <<mem, tok, ret, loop, app>>

\* The spend operations read only the key of the UTXO they are given.
SpendArgs == {UTXO(k[1], k[2], 1, -1, None) : k \in UtxoKeys}

SpendUTXO ==
    \E u \in SpendArgs :
       LET r == spendUTXO(acct, u)
       IN /\ acct' = r.a
          /\ call' = [op |-> "spendUTXO", arg |-> Some(key(u)), ret |-> r.ret, exc |-> r.exc]
          /\ UNCHANGED <<mem, tok, ret, loop, app>>

SpendUTXOs ==
    \E us \in SeqsUpTo(SpendArgs, MaxListLen) :
       LET r == spendUTXOs(acct, us)
       IN /\ acct' = r.a
          /\ call' = [op |-> "spendUTXOs",
                      arg |-> Some([i \in 1..Len(us) |-> key(us[i])]),
                      ret |-> r.ret, exc |-> r.exc]
          /\ UNCHANGED <<mem, tok, ret, loop, app>>

SpendTxidVout ==
    \E txid \in Txids, vout \in Vouts :
       LET r == spendTxidVout(acct, txid, vout)
       IN /\ acct' = r.a
          /\ call' = [op |-> "spendTxidVout", arg |-> Some(makeKey(txid, vout)),
                      ret |-> r.ret, exc |-> r.exc]
          /\ UNCHANGED <<mem, tok, ret, loop, app>>

GetUTXOs ==
    \E requested \in 0..MaxRequested,
       approve \in {None} \cup {Some(S) : S \in SUBSET UtxoKeys} :
       LET r == getUTXOs(acct, requested, approve)
       IN /\ acct' = r.a
          /\ call' = [op |-> "getUTXOs", arg |-> Some(<<requested, approve>>),
                      ret |-> r.ret, exc |-> r.exc]
          /\ UNCHANGED <<mem, tok, ret, loop, app>>

CalcBalance ==
    \E tipHeight \in 0..MaxTip :
       LET r == calcBalance(acct, tipHeight)
       IN /\ acct' = r.a
          /\ call' = [op |-> "calcBalance", arg |-> Some(tipHeight),
                      ret |-> r.ret, exc |-> r.exc]
          /\ UNCHANGED <<mem, tok, ret, loop, app>>

\* The lists given to resolveUTXOs: any of the keys, in one order, each in
\* any state of confirmation.
RECURSIVE SnapshotsOf(_)
SnapshotsOf(ks) ==
    IF ks = <<>> THEN {<<>>}
    ELSE LET rest == SnapshotsOf(Tail(ks))
         IN rest \cup {<<UTXO(Head(ks)[1], Head(ks)[2], 1, c[1], c[2])>> \o r :
                           c \in Confirmations, r \in rest}

ResolveUTXOs ==
    \E us \in SnapshotsOf(<<makeKey("a", 0), makeKey("a", 1), makeKey("b", 0)>>) :
       LET r == resolveUTXOs(acct, us)
       IN /\ acct' = r.a
          /\ call' = [op |-> "resolveUTXOs", arg |-> None, ret |-> r.ret, exc |-> r.exc]
          /\ UNCHANGED <<mem, tok, ret, loop, app>>

\* api.Transaction: the two things the account asks of a transaction.
Transactions == {[txid |-> t, looksLikeCoinbase |-> cb] : t \in Txids, cb \in BOOLEAN}

AddMempoolTx ==
    \E tx \in Transactions :
       LET r == addMempoolTx(acct, tx)
       IN /\ acct' = r.a
          /\ call' = [op |-> "addMempoolTx", arg |-> None, ret |-> r.ret, exc |-> r.exc]
          /\ UNCHANGED <<mem, tok, ret, loop, app>>

ConfirmTx ==
    \E tx \in Transactions, blockHeight \in 1..MaxHeight :
       LET r == confirmTx(acct, tx, blockHeight)
       IN /\ acct' = r.a
          /\ call' = [op |-> "confirmTx", arg |-> Some(<<tx, blockHeight>>),
                      ret |-> r.ret, exc |-> r.exc]
          /\ UNCHANGED <<mem, tok, ret, loop, app>>

\* ======================================================== ScriptTokenizer
\* The bytes scripts are made of: OP_0, OP_DATA_1, OP_DATA_2, OP_PUSHDATA1,
\* OP_PUSHDATA2, OP_PUSHDATA4 and OP_DUP.
OP_0 == 0
OP_DATA_1 == 1
OP_DATA_2 == 2
OP_DATA_75 == 75
OP_PUSHDATA1 == 76
OP_PUSHDATA2 == 77
OP_PUSHDATA4 == 78
OP_DUP == 118
ScriptBytes == {OP_0, OP_DATA_1, OP_DATA_2, OP_PUSHDATA1, OP_PUSHDATA2, OP_PUSHDATA4, OP_DUP}
Scripts == SeqsUpTo(ScriptBytes, MaxScriptLen)

\* opcode.opcodeArray[b].length: 1 for an opcode without payload, n + 1 for
\* OP_DATA_n, and -1, -2, -4 for OP_PUSHDATA1, 2, 4.
opLength(b) ==
    IF b >= OP_DATA_1 /\ b <= OP_DATA_75 THEN b + 1
    ELSE IF b = OP_PUSHDATA1 THEN -1
    ELSE IF b = OP_PUSHDATA2 THEN -2
    ELSE IF b = OP_PUSHDATA4 THEN -4
    ELSE 1

\* Python slices s[i:] and s[i:j] for 0 <= i (a slice never raises).
sliceFrom(s, i) == SubSeq(s, i + 1, Len(s))
slice(s, i, j) == SubSeq(s, i + 1, Min(j, Len(s)))

\* ByteArray.unLittle().int(): the little-endian value of the bytes.
RECURSIVE unLittleInt(_)
unLittleInt(bs) ==
    IF bs = <<>> THEN 0 ELSE Head(bs) + 256 * unLittleInt(Tail(bs))

\* ScriptTokenizer.__init__.
newTokenizer(script) ==
    [script |-> script, offset |-> 0, op |-> None, d |-> None, err |-> NoErr]

noTokenizer == newTokenizer(<<>>)
noLoop == [exited |-> FALSE, n |-> 0, bytes |-> 0, again |-> FALSE]

\* A mutant of done that forgets the error.
done_noErr(t) == t.offset >= Len(t.script)

\* ScriptTokenizer.done.
done(t) == t.err # NoErr \/ t.offset >= Len(t.script)

\* next, op.length == 1: no additional data.
nextNoData(t, op) ==
    [t |-> [t EXCEPT !.offset = @ + 1, !.op = Some(op), !.d = Some(<<>>)],
     ret |-> TRUE]

\* A mutant of the OP_DATA branch that records the error and parses on.
nextData_noReturn(t, op) ==
    LET script == sliceFrom(t.script, t.offset)
    IN [t |-> [t EXCEPT !.offset = @ + opLength(op),
                        !.op = Some(op),
                        !.d = Some(slice(script, 1, opLength(op))),
                        !.err = IF Len(script) < opLength(op)
                                THEN "requires more bytes" ELSE @],
        ret |-> TRUE]

\* next, op.length > 1: OP_DATA_1 .. OP_DATA_75.
nextData(t, op) ==
    LET script == sliceFrom(t.script, t.offset)
    IN IF Len(script) < opLength(op)
       THEN [t |-> [t EXCEPT !.err = "requires more bytes"], ret |-> FALSE]
       ELSE [t |-> [t EXCEPT !.offset = @ + opLength(op),
                             !.op = Some(op),
                             !.d = Some(slice(script, 1, opLength(op)))],
             ret |-> TRUE]

\* A mutant of the OP_PUSHDATA branch that moves past the opcode before it
\* reads the length bytes.
nextPushData_movesFirst(t, op) ==
    LET script == sliceFrom(t.script, t.offset + 1)
    IN IF Len(script) < -opLength(op)
       THEN [t |-> [t EXCEPT !.offset = @ + 1, !.err = "requires more bytes"],
             ret |-> FALSE]
       ELSE LET dataLen == IF opLength(op) = -1 THEN script[1]
                           ELSE unLittleInt(slice(script, 0, -opLength(op)))
                data == sliceFrom(script, -opLength(op))
            IN IF dataLen > Len(data) \/ dataLen < 0
               THEN [t |-> [t EXCEPT !.offset = @ + 1, !.err = "pushes more bytes"],
                     ret |-> FALSE]
               ELSE [t |-> [t EXCEPT !.offset = @ + 1 - opLength(op) + dataLen,
                                     !.op = Some(op),
                                     !.d = Some(slice(data, 0, dataLen))],
                     ret |-> FALSE]

\* next, op.length < 0: OP_PUSHDATA1, 2, 4.  The successful push returns
\* False (txscript.py line 206).
nextPushData(t, op) ==
    LET script == sliceFrom(t.script, t.offset + 1)
    IN IF Len(script) < -opLength(op)
       THEN [t |-> [t EXCEPT !.err = "requires more bytes"], ret |-> FALSE]
       ELSE IF opLength(op) \notin {-1, -2, -4}
       THEN [t |-> [t EXCEPT !.err = "invalid opcode length"], ret |-> FALSE]
       ELSE LET dataLen == IF opLength(op) = -1 THEN script[1]
                           ELSE unLittleInt(slice(script, 0, -opLength(op)))
                data == sliceFrom(script, -opLength(op))
            IN IF dataLen > Len(data) \/ dataLen < 0
               THEN [t |-> [t EXCEPT !.err = "pushes more bytes"], ret |-> FALSE]
               ELSE [t |-> [t EXCEPT !.offset = @ + 1 - opLength(op) + dataLen,
                                     !.op = Some(op),
                                     !.d = Some(slice(data, 0, dataLen))],
                     ret |-> FALSE]

\* ScriptTokenizer.next.
next(t) ==
    IF done(t)
    THEN [t |-> t, ret |-> FALSE]
    ELSE LET op == t.script[t.offset + 1]
         IN IF opLength(op) = 1 THEN nextNoData(t, op)
            ELSE IF opLength(op) > 1 THEN nextData(t, op)
            ELSE nextPushData(t, op)

\* ---------------------------------------------- actions of the tokenizer
\* One call of next().  loop follows a caller's `while tokenizer.next()`
\* from the first call on: the number of times the body ran and the bytes
\* of the tokens it saw, until next() first returns False; again records
\* that next() was called once more after that.
TokNext ==
    LET r == next(tok)
    IN /\ tok' = r.t
       /\ ret' = Some(r.ret)
       /\ loop' = IF loop.exited THEN [loop EXCEPT !.again = TRUE]
                  ELSE IF r.ret
                  THEN [loop EXCEPT !.n = @ + 1,
                                    !.bytes = @ + (r.t.offset - tok.offset)]
                  ELSE [loop EXCEPT !.exited = TRUE]
       /\ UNCHANGED <<acct, call, mem, app>>

\* ============================================================ keys, curve
\* secp256k1 scaled to one-byte scalars: the curve y^2 = x^3 + 7 over the
\* field of FieldP elements, whose points form a group of prime order CurveN
\* (as for secp256k1, CurveN < FieldP < 2^bits).  A point is <<x, y>> and
\* the point at infinity is <<0, 0>>, which is not on the curve.
FieldP == 211
CurveN == 199
MAX_SECRET_INT == 199
MinSeedBytes == 16
MaxSeedBytes == 64
Infinity == <<0, 0>>

\* crypto.modInv: the inverse of a modulo the prime m, for a not a multiple
\* of m.
RECURSIVE powMod(_, _, _)
powMod(a, e, m) ==
    IF e = 0 THEN 1
    ELSE IF e % 2 = 1 THEN (a * powMod(a, e - 1, m)) % m
    ELSE LET h == powMod(a, e \div 2, m) IN (h * h) % m

modInv(a, m) == powMod(a % m, m - 2, m)

\* Curve.add: the group law.
curveAdd(P, Q) ==
    IF P = Infinity THEN Q
    ELSE IF Q = Infinity THEN P
    ELSE IF P[1] = Q[1] /\ (P[2] + Q[2]) % FieldP = 0 THEN Infinity
    ELSE LET l == IF P = Q
                  THEN (3 * P[1] * P[1] * modInv((2 * P[2]) % FieldP, FieldP)) % FieldP
                  ELSE (((Q[2] - P[2]) % FieldP)
                          * modInv((Q[1] - P[1]) % FieldP, FieldP)) % FieldP
             x == (l * l - P[1] - Q[1]) % FieldP
             y == (l * ((P[1] - x) % FieldP) - P[2]) % FieldP
         IN <<x, y>>

\* Curve.scalarMult and Curve.scalarBaseMult, by double and add.
RECURSIVE scalarMult(_, _)
scalarMult(k, P) ==
    IF k = 0 THEN Infinity
    ELSE IF k % 2 = 1 THEN curveAdd(P, scalarMult(k - 1, P))
    ELSE LET h == scalarMult(k \div 2, P) IN curveAdd(h, h)

scalarBaseMult(k) == scalarMult(k, <<3, 33>>)

\* crypto.ExtendedKey: key is the private scalar of a private key and the
\* public point of a public key; the cached pubKey of a new private key is
\* empty.
ExtendedKey(k, pubKey, chainCode, parentFP, depth, childNum, isPrivate) ==
    [key |-> k, pubKey |-> pubKey, chainCode |-> chainCode,
     parentFP |-> parentFP, depth |-> depth, childNum |-> childNum,
     isPrivate |-> isPrivate]

\* newMaster.  lr is the HMAC-SHA512 digest of the seed, split in its halves
\* <<Il, Ir>>: the secret key and the chain code.
newMaster(seedLen, lr) ==
    IF ~(seedLen >= MinSeedBytes /\ seedLen <= MaxSeedBytes)
    THEN [ret |-> None, exc |-> "AssertionError"]
    ELSE LET secretKey == lr[1]
             chainCode == lr[2]
             secretInt == secretKey
         IN IF secretInt > MAX_SECRET_INT \/ secretInt <= 0
            THEN [ret |-> None, exc |-> "KeyLengthException"]
            ELSE [ret |-> Some(ExtendedKey(secretKey, None, chainCode, 0, 0, 0, TRUE)),
                  exc |-> NoErr]

\* A child index with its high bit set is hardened; indices are scaled to
\* two bits.
HardenedKeyStart == 2

\* crypto.hmacDigest, as a fixed mixing function of the key and the data (a
\* sequence of numbers) onto a digest <<Il, Ir>>.
RECURSIVE mix(_, _)
mix(h, data) ==
    IF data = <<>> THEN h
    ELSE mix((h * 31 + Head(data) * 7 + 5) % 65521, Tail(data))

hmacDigest(k, data) ==
    LET h == mix(k + 1, data)
    IN <<h % (MaxSecret + 1), (h \div 256) % (MaxChainCode + 1)>>

\* The compressed serialization of a point: the parity of y, then x.
serializeCompressed(P) == <<2 + (P[2] % 2), P[1]>>

\* The public point of an extended key.
publicPoint(k) == IF k.isPrivate THEN scalarBaseMult(k.key) ELSE k.key

\* The fingerprint of a key: the first bytes of the hash of its serialized
\* public point.
fingerprint(k) == mix(0, serializeCompressed(publicPoint(k))) % 256

\* A mutant whose private derivation always hashes the private key.
child_hashesPrivate(k, i) ==
    LET hardened == i >= HardenedKeyStart
    IN IF hardened /\ ~k.isPrivate
       THEN [ret |-> None, exc |-> "ParameterRangeError"]
       ELSE LET data == IF k.isPrivate
                        THEN <<0, k.key, i>>
                        ELSE serializeCompressed(publicPoint(k)) \o <<i>>
                ilr == hmacDigest(k.chainCode, data)
                il == ilr[1]
            IN IF il >= CurveN \/ il = 0
               THEN [ret |-> None, exc |-> "ParameterRangeError"]
               ELSE LET childKey == IF k.isPrivate
                                    THEN (il + k.key) % CurveN
                                    ELSE curveAdd(scalarBaseMult(il), k.key)
                    IN IF childKey = (IF k.isPrivate THEN 0 ELSE Infinity)
                       THEN [ret |-> None, exc |-> "ParameterRangeError"]
                       ELSE [ret |-> Some(ExtendedKey(childKey,
                                            IF k.isPrivate THEN None ELSE childKey,
                                            ilr[2], fingerprint(k), k.depth + 1,
                                            i, k.isPrivate)),
                             exc |-> NoErr]

\* ExtendedKey.child: BIP32 child derivation.  A hardened child hashes the
\* private key, any other the serialized public point; the child secret is
\* Il + key modulo the order, the child point is Il*G + point.
child(k, i) ==
    LET hardened == i >= HardenedKeyStart
    IN IF hardened /\ ~k.isPrivate
       THEN [ret |-> None, exc |-> "ParameterRangeError"]
       ELSE LET data == IF hardened
                        THEN <<0, k.key, i>>
                        ELSE serializeCompressed(publicPoint(k)) \o <<i>>
                ilr == hmacDigest(k.chainCode, data)
                il == ilr[1]
            IN IF il >= CurveN \/ il = 0
               THEN [ret |-> None, exc |-> "ParameterRangeError"]
               ELSE LET childKey == IF k.isPrivate
                                    THEN (il + k.key) % CurveN
                                    ELSE curveAdd(scalarBaseMult(il), k.key)
                    IN IF childKey = (IF k.isPrivate THEN 0 ELSE Infinity)
                       THEN [ret |-> None, exc |-> "ParameterRangeError"]
                       ELSE [ret |-> Some(ExtendedKey(childKey,
                                            IF k.isPrivate THEN None ELSE childKey,
                                            ilr[2], fingerprint(k), k.depth + 1,
                                            i, k.isPrivate)),
                             exc |-> NoErr]

\* ExtendedKey.neuter: the public-only key at the same position of the tree.
neuter(k) ==
    IF ~k.isPrivate THEN k
    ELSE ExtendedKey(publicPoint(k), publicPoint(k), k.chainCode, k.parentFP,
                     k.depth, k.childNum, FALSE)

\* The value of an expression, named once: the element of a singleton.
TheOnly(S) == CHOOSE x \in S : TRUE

\* ExtendedKey.deriveCoinTypeKey and deriveAccountKey: hardened children
\* along m/44'/coinType'/account'.  The purpose and the coin types are
\* scaled to the two-bit indices.
Purpose == 0

deriveCoinTypeKey(k, coinType) ==
    TheOnly({IF purpose.exc # NoErr THEN purpose
             ELSE child(purpose.ret[1], coinType + HardenedKeyStart) :
                purpose \in {child(k, Purpose + HardenedKeyStart)}})

deriveAccountKey(k, account) == child(k, account + HardenedKeyStart)

\* checkBranchKeys: derives both branches to let an invalid child raise.
checkBranchKeys(acctKey) ==
    TheOnly({IF e.exc # NoErr THEN e.exc ELSE child(acctKey, INTERNAL_BRANCH).exc :
                e \in {child(acctKey, EXTERNAL_BRANCH)}})

\* The buffers createNewAccountManager allocates in its local variables:
\* the key of each private extended key, the bytes of each symmetric key.
LocalPrivateKeys ==
    {"root", "coinTypeLegacyKeyPriv", "coinTypeSLIP0044KeyPriv",
     "acctKeyLegacyPriv", "acctKeySLIP0044Priv"} \X {"key"}

\* createNewAccountManager.  The result carries the zeroth account and the
\* buffers as they are when the call ends; a local that goes out of scope
\* loses its reference as it is.
createNewAccountManager(seedLen, lr, privPassphraseLen, cz) ==
    LET fail(e, allocated) ==
            [a |-> newAccount,
             m |-> [live |-> {}, leaked |-> allocated \X {"key"}],
             ret |-> None, exc |-> e]
        \* A statement that may raise, then the statements after it.
        try(e, allocated, rest) == IF e # NoErr THEN fail(e, allocated) ELSE rest
        root == newMaster(seedLen, lr)
        legacyCoinType == 0
        slip0044CoinType == 1
        created ==
            LET allocated == LocalPrivateKeys
                               \cup ({"cryptoKeyPub", "cryptoKeyPriv", "cryptoKeyScript"}
                                        \X {"b"})
                zerothAccount == open(newAccount)
                m1 == openBuffers(noBuffers)
                g == generateNextPaymentAddress(zerothAccount, cz)
                m2 == closeBuffers(g.a, m1)
                zeroed == {<<"cryptoKeyPriv", "b">>, <<"cryptoKeyScript", "b">>}
            IN [a |-> close(g.a),
                m |-> [live |-> m2.live,
                       leaked |-> m2.leaked \cup (allocated \ zeroed)],
                ret |-> Some("manager"), exc |-> NoErr]
    IN IF privPassphraseLen = 0
       THEN fail("createAddressManager: private passphrase cannot be empty", {})
       ELSE
        try(root.exc, {},
         TheOnly({
          try(coinTypeLegacyKeyPriv.exc, {"root"},
          try(coinTypeSLIP0044KeyPriv.exc, {"root", "coinTypeLegacyKeyPriv"},
           TheOnly({
            try(acctKeyLegacyPriv.exc,
                {"root", "coinTypeLegacyKeyPriv", "coinTypeSLIP0044KeyPriv"},
            try(acctKeySLIP0044Priv.exc,
                {"root", "coinTypeLegacyKeyPriv", "coinTypeSLIP0044KeyPriv",
                 "acctKeyLegacyPriv"},
            try(checkBranchKeys(acctKeyLegacyPriv.ret[1]),
                {"root", "coinTypeLegacyKeyPriv", "coinTypeSLIP0044KeyPriv",
                 "acctKeyLegacyPriv", "acctKeySLIP0044Priv"},
            try(checkBranchKeys(acctKeySLIP0044Priv.ret[1]),
                {"root", "coinTypeLegacyKeyPriv", "coinTypeSLIP0044KeyPriv",
                 "acctKeyLegacyPriv", "acctKeySLIP0044Priv"},
                created)))) :
              acctKeyLegacyPriv \in
                  {deriveAccountKey(coinTypeLegacyKeyPriv.ret[1], 0)},
              acctKeySLIP0044Priv \in
                  {deriveAccountKey(coinTypeSLIP0044KeyPriv.ret[1], 0)}}))) :
            coinTypeLegacyKeyPriv \in
                {deriveCoinTypeKey(root.ret[1], legacyCoinType)},
            coinTypeSLIP0044KeyPriv \in
                {deriveCoinTypeKey(root.ret[1], slip0044CoinType)}}))

\* ----------------------------------------------------- actions of the keys
NewMaster ==
    /\ call.op = "seed"
    /\ LET r == newMaster(call.arg[1][1], call.arg[1][2])
       IN call' = [op |-> "newMaster", arg |-> call.arg, ret |-> r.ret, exc |-> r.exc]
    /\ UNCHANGED <<acct, mem, tok, ret, loop, app>>

\* The key a call returned is derived further.
Child ==
    /\ call.op \in {"newMaster", "child", "neuter"}
    /\ call.ret # None
    /\ call.ret[1].depth < MaxDepth
    /\ \E i \in 0..(2 * HardenedKeyStart - 1) :
          LET r == child(call.ret[1], i)
          IN call' = [op |-> "child", arg |-> Some(i), ret |-> r.ret, exc |-> r.exc]
    /\ UNCHANGED <<acct, mem, tok, ret, loop, app>>

Neuter ==
    /\ call.op \in {"newMaster", "child"}
    /\ call.ret # None
    /\ call' = [op |-> "neuter", arg |-> None, ret |-> Some(neuter(call.ret[1])),
                exc |-> NoErr]
    /\ UNCHANGED <<acct, mem, tok, ret, loop, app>>

CreateNewAccountManager ==
    /\ call.op = "seed"
    /\ \E privPassphraseLen \in 0..1, cz \in SUBSET {0} :
          LET r == createNewAccountManager(call.arg[1][1], call.arg[1][2],
                                           privPassphraseLen, cz)
          IN /\ acct' = r.a
             /\ mem' = r.m
             /\ call' = [op |-> "createNewAccountManager",
                         arg |-> Some(<<call.arg[1], privPassphraseLen>>),
                         ret |-> r.ret, exc |-> r.exc]
    /\ UNCHANGED <<tok, ret, loop, app>>

\* A seed of some length with some digest is at hand.
InitMaster ==
    /\ acct = newAccount
    /\ call \in {[op |-> "seed", arg |-> Some(<<n, lr>>), ret |-> None, exc |-> NoErr] :
                    n \in {MinSeedBytes - 1, MinSeedBytes, MaxSeedBytes, MaxSeedBytes + 1},
                    lr \in (0..MaxSecret) \X (0..MaxChainCode)}
    /\ mem = noBuffers
    /\ tok = noTokenizer
    /\ ret = None
    /\ loop = noLoop
    /\ app = noApp

NextMaster ==
    \/ NewMaster
    \/ Child
    \/ Neuter
    \/ CreateNewAccountManager

SpecMaster == InitMaster /\ [][NextMaster]_vars

\* ============================================================== signing
\* Byte strings are sequences of bytes; the order of the scaled curve has
\* OrderBits bits, so scalars and hashes take one byte.
OrderBits == 8

RECURSIVE unBigInt(_)
unBigInt(b) ==
    IF b = <<>> THEN 0 ELSE unBigInt(SubSeq(b, 1, Len(b) - 1)) * 256 + b[Len(b)]

RECURSIVE shiftRight(_, _)
shiftRight(v, n) == IF n <= 0 THEN v ELSE shiftRight(v \div 2, n - 1)

\* hashToInt: the hash truncated to the byte length of the order, read
\* big-endian, with the excess bits shifted out.
hashToInt(h) ==
    LET orderBytes == (OrderBits + 7) \div 8
        h1 == IF Len(h) > orderBytes THEN SubSeq(h, 1, orderBytes) ELSE h
        excess == Len(h1) * 8 - OrderBits
    IN shiftRight(unBigInt(h1), excess)

\* crypto.mac: a keyed hash of a byte string, one byte wide.
mac(k, data) == mix(k + 1, data) % 256

\* bits2octets, for a one-byte rolen.
bits2octets(bits) ==
    LET z1 == hashToInt(bits)
        z2 == z1 - CurveN
    IN IF z2 < 0 THEN z1 ELSE z2

\* Step H of nonceRFC6979: candidates are drawn until one is in [1, q).
RECURSIVE nonceLoop(_, _)
nonceLoop(k, v) ==
    LET v1 == mac(k, <<v>>)
        secret == hashToInt(<<v1>>)
    IN IF secret >= 1 /\ secret < CurveN
       THEN secret
       ELSE LET k2 == mac(k, <<v1, 0>>)
            IN nonceLoop(k2, mac(k2, <<v1>>))

\* nonceRFC6979 with empty extra and version.
nonceRFC6979(privKey, inHash) ==
    LET bx == <<privKey, bits2octets(inHash)>>
        v0 == 1
        k0 == 0
        k1 == mac(k0, <<v0, 0>> \o bx)
        v1 == mac(k1, <<v0>>)
        k2 == mac(k1, <<v1, 1>> \o bx)
        v2 == mac(k2, <<v1>>)
    IN nonceLoop(k2, v2)

Signature(r, s) == [r |-> r, s |-> s]

\* signRFC6979.
signRFC6979(privateKey, inHash) ==
    LET N == CurveN
        k == nonceRFC6979(privateKey, inHash)
        inv == modInv(k, N)
        r == scalarBaseMult(k)[1] % N
        e == hashToInt(inHash)
        s1 == ((privateKey * r + e) * inv) % N
        s2 == IF shiftRight(N, 1) > 1 THEN N - s1 ELSE s1
    IN IF r = 0
       THEN [ret |-> None, exc |-> "calculated R is zero"]
       ELSE IF s2 = 0
       THEN [ret |-> None, exc |-> "calculated S is zero"]
       ELSE [ret |-> Some(Signature(r, s2)), exc |-> NoErr]

\* ByteArray(val): the big-endian bytes of a number, none for zero.
RECURSIVE ByteArray(_)
ByteArray(val) ==
    IF val = 0 THEN <<>> ELSE Append(ByteArray(val \div 256), val % 256)

\* A mutant that never pads.
canonicalizeInt_noPad(val) ==
    LET b == ByteArray(val)
    IN IF Len(b) = 0 THEN <<0>> ELSE b

\* canonicalizeInt: at least one byte, and a leading zero byte when the top
\* bit of the first byte is set.
canonicalizeInt(val) ==
    LET b == ByteArray(val)
        b1 == IF Len(b) = 0 THEN <<0>> ELSE b
    IN IF b1[1] >= 128 THEN <<0>> \o b1 ELSE b1

\* Signature.serialize: 0x30 <length> 0x02 <length r> r 0x02 <length s> s
\* with s brought to the lower half of the order.
serialize(sig) ==
    LET order == CurveN
        halforder == shiftRight(order, 1)
        sigS == IF sig.s > halforder THEN order - sig.s ELSE sig.s
        rb == canonicalizeInt(sig.r)
        sb == canonicalizeInt(sigS)
        length == 6 + Len(rb) + Len(sb)
    IN <<48, length - 2, 2, Len(rb)>> \o rb \o <<2, Len(sb)>> \o sb

\* ---------------------------------------------------- actions of signing
SignRFC6979 ==
    /\ call.op = "message"
    /\ LET r == signRFC6979(call.arg[1][1], call.arg[1][2])
       IN call' = [op |-> "signRFC6979", arg |-> call.arg, ret |-> r.ret, exc |-> r.exc]
    /\ UNCHANGED <<acct, mem, tok, ret, loop, app>>

Serialize ==
    /\ call.op = "signature"
    /\ call' = [op |-> "serialize", arg |-> call.arg,
                ret |-> Some(serialize(call.arg[1])), exc |-> NoErr]
    /\ UNCHANGED <<acct, mem, tok, ret, loop, app>>

\* A private key and the hash of a message are at hand, or a signature
\* with both components in range.
InitSign ==
    /\ acct = newAccount
    /\ call \in {[op |-> "message", arg |-> Some(<<x, h>>), ret |-> None, exc |-> NoErr] :
                    x \in 1..MaxPrivateKey, h \in {<<b>> : b \in 0..MaxSecret}}
                \cup {[op |-> "signature", arg |-> Some(Signature(r, s)),
                        ret |-> None, exc |-> NoErr] :
                          r \in 1..(CurveN - 1), s \in 1..(CurveN - 1)}
    /\ mem = noBuffers
    /\ tok = noTokenizer
    /\ ret = None
    /\ loop = noLoop
    /\ app = noApp

NextSign ==
    \/ SignRFC6979
    \/ Serialize

SpecSign == InitSign /\ [][NextSign]_vars

\* ======================================================= signature hash
HASH_SIZE == 32
SigHashAll == 1
SigHashNone == 2
SigHashSingle == 3
SigHashAnyOneCanPay == 128
sigHashMask == 31
SigHashSerializePrefix == 1
SigHashSerializeWitness == 3
SigHashOptimization == FALSE
MaxUint16 == 65535

\* The bitwise and, or of two naturals.
RECURSIVE bitAnd(_, _)
bitAnd(a, b) ==
    IF a = 0 \/ b = 0 THEN 0
    ELSE (a % 2) * (b % 2) + 2 * bitAnd(a \div 2, b \div 2)

RECURSIVE bitOr(_, _)
bitOr(a, b) ==
    IF a = 0 THEN b
    ELSE IF b = 0 THEN a
    ELSE Max(a % 2, b % 2) + 2 * bitOr(a \div 2, b \div 2)

\* ByteArray(val, length=n).littleEndian(): n bytes, lowest first; -1 is all
\* bits set.
RECURSIVE littleEndian(_, _)
littleEndian(val, n) ==
    IF n = 0 THEN <<>>
    ELSE IF val < 0 THEN <<255>> \o littleEndian(val, n - 1)
    ELSE <<val % 256>> \o littleEndian(val \div 256, n - 1)

\* putVarInt and varIntSerializeSize, for values below 2^32.
putVarInt(val) ==
    IF val < 253 THEN littleEndian(val, 1)
    ELSE IF val <= MaxUint16 THEN <<253>> \o littleEndian(val, 2)
    ELSE <<254>> \o littleEndian(val, 4)

varIntSerializeSize(val) ==
    IF val < 253 THEN 1 ELSE IF val <= MaxUint16 THEN 3 ELSE 5

\* crypto.hashH, as an ideal hash: the digest stands for its preimage.
hashH(b) == [H |-> b]

\* checkScriptParses: the loop `while tokenizer.next(): pass`, then the
\* tokenizer's err is returned.
RECURSIVE parseAll(_)
parseAll(t) ==
    LET r == next(t) IN IF r.ret THEN parseAll(r.t) ELSE r.t

checkScriptParses(script) == parseAll(newTokenizer(script)).err

\* sigHashPrefixSerializeSize.
RECURSIVE pkScriptSizes(_, _, _, _)
pkScriptSizes(hashType, txOuts, signIdx, txOutIdx) ==
    IF txOutIdx >= Len(txOuts) THEN 0
    ELSE LET pkScript == IF bitAnd(hashType, sigHashMask) = SigHashSingle
                              /\ txOutIdx # signIdx
                         THEN <<>> ELSE txOuts[txOutIdx + 1].pkScript
         IN varIntSerializeSize(Len(pkScript)) + Len(pkScript)
              + pkScriptSizes(hashType, txOuts, signIdx, txOutIdx + 1)

sigHashPrefixSerializeSize(hashType, txIns, txOuts, signIdx) ==
    4 + varIntSerializeSize(Len(txIns)) + Len(txIns) * (HASH_SIZE + 4 + 1 + 4)
      + varIntSerializeSize(Len(txOuts)) + Len(txOuts) * (8 + 2) + 4 + 4
      + pkScriptSizes(hashType, txOuts, signIdx, 0)

\* sigHashWitnessSerializeSize.
sigHashWitnessSerializeSize(txIns, signScript) ==
    4 + varIntSerializeSize(Len(txIns)) + (Len(txIns) - 1)
      + varIntSerializeSize(Len(signScript)) + Len(signScript)

\* The loop of calcSignatureHash over the inputs of the prefix.
RECURSIVE prefixInputs(_, _, _, _)
prefixInputs(hashType, txIns, signTxInIdx, txInIdx) ==
    IF txInIdx >= Len(txIns) THEN <<>>
    ELSE LET txIn == txIns[txInIdx + 1]
             prevOut == txIn.previousOutPoint
             masked == bitAnd(hashType, sigHashMask)
             sequence == IF (masked = SigHashNone \/ masked = SigHashSingle)
                              /\ txInIdx # signTxInIdx
                         THEN 0 ELSE txIn.sequence
         IN prevOut.hash \o littleEndian(prevOut.index, 4)
              \o littleEndian(prevOut.tree, 1) \o littleEndian(sequence, 4)
              \o prefixInputs(hashType, txIns, signTxInIdx, txInIdx + 1)

\* The loop of calcSignatureHash over the outputs of the prefix.
RECURSIVE prefixOutputs(_, _, _, _)
prefixOutputs(hashType, txOuts, idx, txOutIdx) ==
    IF txOutIdx >= Len(txOuts) THEN <<>>
    ELSE LET txOut == txOuts[txOutIdx + 1]
             clear == bitAnd(hashType, sigHashMask) = SigHashSingle /\ txOutIdx # idx
             value == IF clear THEN -1 ELSE txOut.value
             pkScript == IF clear THEN <<>> ELSE txOut.pkScript
         IN littleEndian(value, 8) \o littleEndian(txOut.version, 2)
              \o putVarInt(Len(pkScript)) \o pkScript
              \o prefixOutputs(hashType, txOuts, idx, txOutIdx + 1)

\* The loop of calcSignatureHash over the inputs of the witness.
RECURSIVE witnessInputs(_, _, _, _)
witnessInputs(script, n, signTxInIdx, txInIdx) ==
    IF txInIdx >= n THEN <<>>
    ELSE LET commitScript == IF txInIdx # signTxInIdx THEN <<>> ELSE script
         IN putVarInt(Len(commitScript)) \o commitScript
              \o witnessInputs(script, n, signTxInIdx, txInIdx + 1)

\* A mutant whose witness commits the script at the first input.
calcWitnessBuf_firstInput(script, tx, txIns, signTxInIdx) ==
    littleEndian(bitOr(tx.version, SigHashSerializeWitness * 65536), 4)
      \o putVarInt(Len(txIns))
      \o witnessInputs(script, Len(txIns), 0, 0)

\* The witness serialization of calcSignatureHash.
calcWitnessBuf(script, tx, txIns, signTxInIdx) ==
    littleEndian(bitOr(tx.version, SigHashSerializeWitness * 65536), 4)
      \o putVarInt(Len(txIns))
      \o witnessInputs(script, Len(txIns), signTxInIdx, 0)

\* A mutant whose prefix keeps the sequence numbers of all inputs.
calcPrefixBuf_keepsSequences(hashType, tx, txIns, txOuts, signTxInIdx, idx) ==
    littleEndian(bitOr(tx.version, SigHashSerializePrefix * 65536), 4)
      \o putVarInt(Len(txIns))
      \o prefixInputs(SigHashAll, txIns, signTxInIdx, 0)
      \o putVarInt(Len(txOuts))
      \o prefixOutputs(hashType, txOuts, idx, 0)
      \o littleEndian(tx.lockTime, 4) \o littleEndian(tx.expiry, 4)

\* The prefix serialization of calcSignatureHash.
calcPrefixBuf(hashType, tx, txIns, txOuts, signTxInIdx, idx) ==
    littleEndian(bitOr(tx.version, SigHashSerializePrefix * 65536), 4)
      \o putVarInt(Len(txIns))
      \o prefixInputs(hashType, txIns, signTxInIdx, 0)
      \o putVarInt(Len(txOuts))
      \o prefixOutputs(hashType, txOuts, idx, 0)
      \o littleEndian(tx.lockTime, 4) \o littleEndian(tx.expiry, 4)

\* calcSignatureHash.  The result of checkScriptParses is not looked at.
calcSignatureHash(script, hashType, tx, idx, cachedPrefix) ==
    LET parsed == checkScriptParses(script)
        masked == bitAnd(hashType, sigHashMask)
        anyOneCanPay == bitAnd(hashType, SigHashAnyOneCanPay) # 0
        txIns == IF anyOneCanPay THEN SubSeq(tx.txIn, idx + 1, idx + 1) ELSE tx.txIn
        signTxInIdx == IF anyOneCanPay THEN 0 ELSE idx
        txOuts == IF masked = SigHashNone THEN <<>>
                  ELSE IF masked = SigHashSingle THEN SubSeq(tx.txOut, 1, idx + 1)
                  ELSE tx.txOut
        useCached == SigHashOptimization /\ cachedPrefix # None
                       /\ masked = SigHashAll /\ ~anyOneCanPay
        prefixBuf == calcPrefixBuf(hashType, tx, txIns, txOuts, signTxInIdx, idx)
        witnessBuf == calcWitnessBuf(script, tx, txIns, signTxInIdx)
    IN IF masked = SigHashSingle /\ idx >= Len(tx.txOut)
       THEN [ret |-> None, exc |-> "attempt to sign single input at index >= outputs"]
       ELSE IF ~useCached
               /\ Len(prefixBuf) # sigHashPrefixSerializeSize(hashType, txIns, txOuts, idx)
       THEN [ret |-> None, exc |-> "incorrect prefix serialization size"]
       ELSE IF Len(witnessBuf) # sigHashWitnessSerializeSize(txIns, script)
       THEN [ret |-> None, exc |-> "incorrect witness serialization size"]
       ELSE LET prefixHash == IF useCached THEN cachedPrefix[1] ELSE hashH(prefixBuf)
                witnessHash == hashH(witnessBuf)
            IN [ret |-> Some(hashH(<<littleEndian(hashType, 4), prefixHash, witnessHash>>)),
                exc |-> NoErr]

\* ----------------------------------------- actions of the signature hash
OutPointHashes == {[i \in 1..HASH_SIZE |-> b] : b \in 1..2}
SequenceNumbers == {0, 7}
\* msgtx.TxIn with its OutPoint, msgtx.TxOut and msgtx.MsgTx, as far as
\* calcSignatureHash reads them.
TxInputs ==
    {[previousOutPoint |-> [hash |-> h, index |-> 0, tree |-> 0], sequence |-> q] :
        h \in OutPointHashes, q \in SequenceNumbers}
TxOutputs ==
    {[value |-> o[1], version |-> 0, pkScript |-> o[2]] :
        o \in {<<1, <<>> >>, <<2, <<>> >>, <<2, <<OP_DUP>> >>}}
MsgTxs ==
    {[version |-> 1, txIn |-> ins, txOut |-> outs, lockTime |-> 0, expiry |-> 0] :
        ins \in SeqsUpTo(TxInputs, MaxTxIn) \ {<<>>},
        outs \in SeqsUpTo(TxOutputs, MaxTxOut)}
CachedPrefixes == {None, Some(hashH(<<0>>))}

CalcSignatureHash ==
    /\ call.op = "tx"
    /\ \E cachedPrefix \in CachedPrefixes :
          LET a == call.arg[1]
              r == calcSignatureHash(a.script, a.hashType, a.tx, a.idx, cachedPrefix)
          IN call' = [op |-> "calcSignatureHash", arg |-> call.arg,
                      ret |-> r.ret, exc |-> r.exc]
    /\ UNCHANGED <<acct, mem, tok, ret, loop, app>>

\* A transaction, the index of one of its inputs, a script and a hash type
\* are at hand.
InitSigHash ==
    /\ acct = newAccount
    /\ call \in {[op |-> "tx",
                   arg |-> Some([script |-> sc, hashType |-> ht, tx |-> tx,
                                 idx |-> idx]),
                   ret |-> None, exc |-> NoErr] :
                    sc \in {<<>>, <<OP_DUP>>, <<OP_DATA_1>>},
                    ht \in {SigHashAll, SigHashNone, SigHashSingle,
                             SigHashAll + SigHashAnyOneCanPay,
                             SigHashNone + SigHashAnyOneCanPay,
                             SigHashSingle + SigHashAnyOneCanPay},
                    tx \in MsgTxs, idx \in 0..(MaxTxIn - 1)}
    /\ call.arg[1].idx < Len(call.arg[1].tx.txIn)
    /\ mem = noBuffers
    /\ tok = noTokenizer
    /\ ret = None
    /\ loop = noLoop
    /\ app = noApp

NextSigHash == CalcSignatureHash

SpecSigHash == InitSigHash /\ [][NextSigHash]_vars

InitTokenizer ==
    /\ acct = newAccount
    /\ call = noCall
    /\ mem = noBuffers
    /\ tok \in {newTokenizer(s) : s \in Scripts}
    /\ ret = None
    /\ loop = noLoop
    /\ app = noApp

NextTokenizer == TokNext

SpecTokenizer == InitTokenizer /\ [][NextTokenizer]_vars

InitAccount ==
    /\ acct = newAccount
    /\ call = noCall
    /\ mem = noBuffers
    /\ tok = noTokenizer
    /\ ret = None
    /\ loop = noLoop
    /\ app = noApp

NextAccount ==
    \/ Open
    \/ Close
    \/ AddTxid
    \/ GenerateNextPaymentAddress
    \/ GetNextPaymentAddress
    \/ GenerateGapAddresses
    \/ GetChangeAddress
    \/ PaymentAddress

SpecAccount == InitAccount /\ [][NextAccount]_vars

NextSpend ==
    \/ AddUTXO
    \/ SpendUTXO
    \/ SpendUTXOs
    \/ SpendTxidVout

SpecSpend == InitAccount /\ [][NextSpend]_vars

NextSelect ==
    \/ AddUTXO
    \/ SpendUTXO
    \/ GetUTXOs

SpecSelect == InitAccount /\ [][NextSelect]_vars

NextBalance ==
    \/ AddUTXO
    \/ SpendTxidVout
    \/ CalcBalance

SpecBalance == InitAccount /\ [][NextBalance]_vars

NextConfirm ==
    \/ ResolveUTXOs
    \/ AddMempoolTx
    \/ ConfirmTx

SpecConfirm == InitAccount /\ [][NextConfirm]_vars

\* ====================================================== script templates
\* Script classes and the opcodes of the standard templates.
PubKeyTy == 1
PubKeyHashTy == 2
ScriptHashTy == 3
MultiSigTy == 4
StakeSubmissionTy == 6
StakeGenTy == 7
StakeRevocationTy == 8
StakeSubChangeTy == 9
OP_DATA_20 == 20
OP_DATA_33 == 33
OP_DATA_65 == 65
OP_1NEGATE == 79
OP_1 == 81
OP_16 == 96
OP_EQUAL == 135
OP_EQUALVERIFY == 136
OP_HASH160 == 169
OP_CHECKSIG == 172
OP_CHECKMULTISIG == 174
OP_SSTX == 186
OP_SSGEN == 187
OP_SSRTX == 188
OP_SSTXCHANGE == 189

\* A Python object where the code hands on something that need not be a
\* ByteArray: the bytes b, None, the builtin function hash, and the bound
\* method tokenizer.data.
pyObject(type, val) == [type |-> type, val |-> val]

\* extractPubKeyHash: OP_DUP OP_HASH160 <20-byte hash> OP_EQUALVERIFY
\* OP_CHECKSIG.  script[i] of the code is script[i + 1] here.
extractPubKeyHash(script) ==
    IF /\ Len(script) = 25
       /\ script[1] = OP_DUP
       /\ script[2] = OP_HASH160
       /\ script[3] = OP_DATA_20
       /\ script[24] = OP_EQUALVERIFY
       /\ script[25] = OP_CHECKSIG
    THEN Some(slice(script, 3, 23))
    ELSE None

\* extractScriptHash: OP_HASH160 <20-byte scripthash> OP_EQUAL.
extractScriptHash(pkScript) ==
    IF /\ Len(pkScript) = 23
       /\ pkScript[1] = OP_HASH160
       /\ pkScript[2] = OP_DATA_20
       /\ pkScript[23] = OP_EQUAL
    THEN Some(slice(pkScript, 2, 22))
    ELSE None

\* extractPubKey: extractCompressedPubKey, then extractUncompressedPubKey.
extractPubKey(script) ==
    LET extractCompressedPubKey ==
            IF /\ Len(script) = 35
               /\ script[35] = OP_CHECKSIG
               /\ script[1] = OP_DATA_33
               /\ (script[2] = 2 \/ script[2] = 3)
            THEN Some(slice(script, 1, 34))
            ELSE None
        extractUncompressedPubKey ==
            IF /\ Len(script) = 67
               /\ script[67] = OP_CHECKSIG
               /\ script[1] = OP_DATA_65
               /\ script[2] = 4
            THEN Some(slice(script, 1, 66))
            ELSE None
    IN IF extractCompressedPubKey # None
       THEN extractCompressedPubKey
       ELSE extractUncompressedPubKey

\* extractStakeScriptHash: <stake opcode> OP_HASH160 <20 bytes> OP_EQUAL.
extractStakeScriptHash(script, stakeOpcode) ==
    IF /\ Len(script) = 24
       /\ script[1] = stakeOpcode
       /\ script[2] = OP_HASH160
       /\ script[3] = OP_DATA_20
       /\ script[24] = OP_EQUAL
    THEN Some(slice(script, 3, 23))
    ELSE None

\* extractStakePubKeyHash: <stake opcode> <pay-to-pubkey-hash script>.
extractStakePubKeyHash(script, stakeOpcode) ==
    IF Len(script) < 1 \/ script[1] # stakeOpcode
    THEN None
    ELSE extractPubKeyHash(sliceFrom(script, 1))

asSmallInt(op) == IF op = OP_0 THEN 0 ELSE op - (OP_1 - 1)

isSmallInt(op) == op = OP_0 \/ (op >= OP_1 /\ op <= OP_16)

isStrictPubKeyEncoding(pubKey) ==
    \/ Len(pubKey) = 33 /\ (pubKey[1] = 2 \/ pubKey[1] = 3)
    \/ Len(pubKey) = 65 /\ pubKey[1] = 4

\* multiSigDetails; invalidMSDetails() holds the list [] as requiredSigs, so
\* requiredSigs is <<>> there and <<n>> in valid details.
multiSigDetails(pubkeys, numPubKeys, requiredSigs, valid) ==
    [pubKeys |-> pubkeys, numPubKeys |-> numPubKeys,
     requiredSigs |-> requiredSigs, valid |-> valid]

\* The loop of extractMultisigScriptDetails over the public key pushes: it
\* ends when next() returns False or at the first token that is no strictly
\* encoded public key.
RECURSIVE pubKeyLoop(_, _, _, _)
pubKeyLoop(t, numPubkeys, pubkeys, extractPubKeys) ==
    LET r == next(t)
    IN IF ~r.ret \/ ~isStrictPubKeyEncoding(r.t.d[1])
       THEN [t |-> r.t, numPubkeys |-> numPubkeys, pubkeys |-> pubkeys]
       ELSE pubKeyLoop(r.t, numPubkeys + 1,
                       IF extractPubKeys THEN Append(pubkeys, r.t.d[1]) ELSE pubkeys,
                       extractPubKeys)

extractMultisigScriptDetails(scriptVersion, script, extractPubKeys) ==
    LET invalidMSDetails == multiSigDetails(<<>>, 0, <<>>, FALSE)
        first == next(newTokenizer(script))
    IN IF scriptVersion # 0 THEN invalidMSDetails
       ELSE IF Len(script) < 3 \/ script[Len(script)] # OP_CHECKMULTISIG
       THEN invalidMSDetails
       ELSE IF ~first.ret \/ ~isSmallInt(first.t.op[1]) THEN invalidMSDetails
       ELSE TheOnly({
              IF done(l.t) THEN invalidMSDetails
              ELSE IF ~isSmallInt(l.t.op[1]) \/ asSmallInt(l.t.op[1]) # l.numPubkeys
              THEN invalidMSDetails
              ELSE IF Len(l.t.script) - l.t.offset # 1 THEN invalidMSDetails
              ELSE multiSigDetails(l.pubkeys, l.numPubkeys,
                                   Some(asSmallInt(first.t.op[1])), TRUE)
              : l \in {pubKeyLoop(first.t, 0, <<>>, extractPubKeys)} })

\* crypto.newAddressPubKeyHash, newAddressScriptHashFromHash and
\* AddressSecpPubKey: an address holds what it was made of.  Whether the
\* constructor looks at the length of its argument is not fixed here:
\* checksLen is the caller's choice, and a constructor that does fails on an
\* argument that is no ByteArray.
newAddress(type, hash, checksLen) ==
    IF checksLen /\ hash.type # "ByteArray"
    THEN [ret |-> None, exc |-> "TypeError"]
    ELSE [ret |-> Some([type |-> type, hash |-> hash]), exc |-> NoErr]

\* pubKeyHashToAddrs and scriptHashToAddrs: a list of the one address.
pubKeyHashToAddrs(pkHash, checksLen) ==
    LET a == newAddress("AddressPubKeyHash", pkHash, checksLen)
    IN [ret |-> IF a.exc = NoErr THEN Some(<<a.ret[1]>>) ELSE None, exc |-> a.exc]

scriptHashToAddrs(scriptHash, checksLen) ==
    LET a == newAddress("AddressScriptHash", scriptHash, checksLen)
    IN [ret |-> IF a.exc = NoErr THEN Some(<<a.ret[1]>>) ELSE None, exc |-> a.exc]

\* extractPkScriptAddrs: the class, the addresses and the number of required
\* signatures, as the tuple <<scriptClass, addrs, nRequired>>.  The stake
\* submission branch hands the builtin hash to the address constructors
\* (lines 1278 and 1281).
extractPkScriptAddrs(version, pkScript, checksLen) ==
    LET bytes(h) == pyObject("ByteArray", h[1])
        hash == pyObject("builtin_function_or_method", <<>>)
        result(scriptClass, addrs, nRequired) ==
            IF addrs.exc # NoErr THEN [ret |-> None, exc |-> addrs.exc]
            ELSE [ret |-> Some(<<scriptClass, addrs.ret[1], nRequired>>), exc |-> NoErr]
        pubKeyAddrs(pubKeys) ==
            [ret |-> Some([i \in 1..Len(pubKeys) |->
                             newAddress("AddressSecpPubKey",
                                        pyObject("ByteArray", pubKeys[i]), FALSE).ret[1]]),
             exc |-> NoErr]
        details == extractMultisigScriptDetails(version, pkScript, TRUE)
        pkHash(op) == extractStakePubKeyHash(pkScript, op)
        scriptHash(op) == extractStakeScriptHash(pkScript, op)
    IN IF version # 0 THEN [ret |-> None, exc |-> "invalid script version"]
       ELSE IF extractPubKeyHash(pkScript) # None
       THEN result(PubKeyHashTy,
                   pubKeyHashToAddrs(bytes(extractPubKeyHash(pkScript)), checksLen), 1)
       ELSE IF extractScriptHash(pkScript) # None
       THEN result(ScriptHashTy,
                   scriptHashToAddrs(bytes(extractScriptHash(pkScript)), checksLen), 1)
       ELSE IF extractPubKey(pkScript) # None
       THEN result(PubKeyTy, pubKeyAddrs(<<extractPubKey(pkScript)[1]>>), 1)
       ELSE IF details.valid
       THEN result(MultiSigTy, pubKeyAddrs(details.pubKeys), details.requiredSigs[1])
       ELSE IF pkHash(OP_SSTX) # None
       THEN result(StakeSubmissionTy, pubKeyHashToAddrs(hash, checksLen), 1)
       ELSE IF scriptHash(OP_SSTX) # None
       THEN result(StakeSubmissionTy, scriptHashToAddrs(hash, checksLen), 1)
       ELSE IF pkHash(OP_SSGEN) # None
       THEN result(StakeGenTy, pubKeyHashToAddrs(bytes(pkHash(OP_SSGEN)), checksLen), 1)
       ELSE IF scriptHash(OP_SSGEN) # None
       THEN result(StakeGenTy, scriptHashToAddrs(bytes(scriptHash(OP_SSGEN)), checksLen), 1)
       ELSE IF pkHash(OP_SSRTX) # None
       THEN result(StakeRevocationTy,
                   pubKeyHashToAddrs(bytes(pkHash(OP_SSRTX)), checksLen), 1)
       ELSE IF scriptHash(OP_SSRTX) # None
       THEN result(StakeRevocationTy,
                   scriptHashToAddrs(bytes(scriptHash(OP_SSRTX)), checksLen), 1)
       ELSE IF pkHash(OP_SSTXCHANGE) # None
       THEN result(StakeSubChangeTy,
                   pubKeyHashToAddrs(bytes(pkHash(OP_SSTXCHANGE)), checksLen), 1)
       ELSE IF scriptHash(OP_SSTXCHANGE) # None
       THEN result(StakeSubChangeTy,
                   scriptHashToAddrs(bytes(scriptHash(OP_SSTXCHANGE)), checksLen), 1)
       ELSE [ret |-> None, exc |-> "unsupported script"]

\* finalOpcodeData: None for the empty script and for one that fails to
\* parse.  The loop body assigns tokenizer.data, the bound method (line 283),
\* so what comes back after at least one pass is that method and no bytes;
\* without a pass (next() False at once) data is still None.
finalOpcodeData(script) ==
    LET t == newTokenizer(script)
    IN IF Len(script) = 0 THEN pyObject("NoneType", <<>>)
       ELSE IF parseAll(t).err # NoErr THEN pyObject("NoneType", <<>>)
       ELSE IF next(t).ret THEN pyObject("method", <<>>)
       ELSE pyObject("NoneType", <<>>)

\* addData: the canonical push of data.
addData(data) ==
    LET dataLen == Len(data)
    IN IF dataLen = 0 \/ (dataLen = 1 /\ data[1] = 0) THEN <<OP_0>>
       ELSE IF dataLen = 1 /\ data[1] <= 16 THEN <<OP_1 - 1 + data[1]>>
       ELSE IF dataLen = 1 /\ data[1] = 129 THEN <<OP_1NEGATE>>
       ELSE IF dataLen < OP_PUSHDATA1 THEN <<(OP_DATA_1 - 1) + dataLen>> \o data
       ELSE IF dataLen <= 255 THEN <<OP_PUSHDATA1, dataLen>> \o data
       ELSE IF dataLen <= 65535
       THEN <<OP_PUSHDATA2>> \o littleEndian(dataLen, 2) \o data
       ELSE <<OP_PUSHDATA4>> \o littleEndian(dataLen, 4) \o data

\* A mutant of mergeScripts in which a tie goes to sigScript.
mergeScripts_tieToSigScript(pkScript, scriptClass, sigScript, prevScript, checksLen) ==
    IF scriptClass = MultiSigTy
    THEN [ret |-> None, exc |-> "multisig signing unimplemented"]
    ELSE IF prevScript = None \/ Len(sigScript) >= Len(prevScript[1])
    THEN [ret |-> Some(sigScript), exc |-> NoErr]
    ELSE [ret |-> prevScript, exc |-> NoErr]

\* mergeScripts.  sigScript is a ByteArray and prevScript a ByteArray or
\* None; tx, idx, addresses and nRequired are only handed on.  In the
\* ScriptHashTy branch len(prevScript) fails on None, and extractPubKeyHash,
\* the first thing extractPkScriptAddrs does, takes len() of what
\* finalOpcodeData returned.
RECURSIVE mergeScripts(_, _, _, _, _)
mergeScripts(pkScript, scriptClass, sigScript, prevScript, checksLen) ==
    IF scriptClass = ScriptHashTy
    THEN IF Len(sigScript) = 0 \/ checkScriptParses(sigScript) # NoErr
         THEN [ret |-> prevScript, exc |-> NoErr]
         ELSE IF prevScript = None THEN [ret |-> None, exc |-> "TypeError"]
         ELSE IF Len(prevScript[1]) = 0 \/ checkScriptParses(prevScript[1]) # NoErr
         THEN [ret |-> Some(sigScript), exc |-> NoErr]
         ELSE LET script == finalOpcodeData(sigScript)
              IN IF script.type # "ByteArray"
                 THEN [ret |-> None, exc |-> "TypeError"]
                 ELSE LET e == extractPkScriptAddrs(0, script.val, checksLen)
                      IN IF e.exc # NoErr THEN e
                         ELSE LET mergedScript ==
                                      mergeScripts(script.val, e.ret[1][1], sigScript,
                                                   prevScript, checksLen)
                              IN IF mergedScript.exc # NoErr THEN mergedScript
                                 ELSE [ret |-> Some(mergedScript.ret[1]
                                                       \o addData(script.val)),
                                       exc |-> NoErr]
    ELSE IF scriptClass = MultiSigTy
    THEN [ret |-> None, exc |-> "multisig signing unimplemented"]
    ELSE IF prevScript = None \/ Len(sigScript) > Len(prevScript[1])
    THEN [ret |-> Some(sigScript), exc |-> NoErr]
    ELSE [ret |-> prevScript, exc |-> NoErr]

\* ------------------------------------------- actions of the script engine
\* The scripts at hand: the standard templates over two hashes, plain and
\* stake-tagged, the two pay-to-pubkey forms, scripts of the multisig shape
\* with up to MaxPubKeys key pushes (direct pushes of a compressed, an
\* uncompressed and a wrongly prefixed key, and OP_PUSHDATA1 of a compressed
\* key), and a few others.
PkScripts ==
    LET fill(b, n) == [i \in 1..n |-> b]
        hashes == {fill(17, 20), fill(34, 20)}
        stakeOpcodes == {OP_SSTX, OP_SSGEN, OP_SSRTX, OP_SSTXCHANGE}
        p2pkh(h) == <<OP_DUP, OP_HASH160, OP_DATA_20>> \o h \o <<OP_EQUALVERIFY, OP_CHECKSIG>>
        p2sh(h) == <<OP_HASH160, OP_DATA_20>> \o h \o <<OP_EQUAL>>
        compressed == <<2>> \o fill(7, 32)
        uncompressed == <<4>> \o fill(7, 64)
        keyPushes == {<<OP_DATA_33>> \o compressed,
                      <<OP_DATA_65>> \o uncompressed,
                      <<OP_DATA_33, 5>> \o fill(7, 32),
                      <<OP_PUSHDATA1, 33>> \o compressed}
        smallInts == {OP_0} \cup {OP_1 - 1 + i : i \in 1..MaxPubKeys}
    IN {p2pkh(h) : h \in hashes} \cup {p2sh(h) : h \in hashes}
         \cup {<<op>> \o p2pkh(h) : op \in stakeOpcodes \cup {OP_DUP}, h \in hashes}
         \cup {<<op>> \o p2sh(h) : op \in stakeOpcodes \cup {OP_DUP}, h \in hashes}
         \cup {<<OP_DATA_33>> \o compressed \o <<OP_CHECKSIG>>,
               <<OP_DATA_65>> \o uncompressed \o <<OP_CHECKSIG>>,
               <<>>, <<OP_DUP>>, <<OP_SSTX>>, <<OP_DATA_20>>}
         \cup {<<m>> \o Concat(keys) \o <<n>> \o tail :
                  m \in smallInts \cup {OP_DUP},
                  keys \in SeqsUpTo(keyPushes, MaxPubKeys),
                  n \in smallInts,
                  tail \in {<<OP_CHECKMULTISIG>>, <<OP_CHECKMULTISIG, OP_CHECKMULTISIG>>,
                            <<OP_CHECKSIG>>, <<>>}}

\* The signature scripts to merge: empty, unparsable, one opcode, one push,
\* the push of a pay-to-pubkey-hash redeem script, a push followed by the push
\* of a redeem script that is itself pay-to-script-hash, and an OP_PUSHDATA1.
SigScripts ==
    LET h == [i \in 1..20 |-> 17]
    IN {<<>>, <<OP_DATA_1>>, <<OP_0>>, <<OP_DATA_1, 7>>, <<OP_PUSHDATA1, 1, 7>>,
        addData(<<OP_DUP, OP_HASH160, OP_DATA_20>> \o h \o <<OP_EQUALVERIFY, OP_CHECKSIG>>),
        <<OP_0>> \o addData(<<OP_HASH160, OP_DATA_20>> \o h \o <<OP_EQUAL>>)}

ExtractPkScriptAddrs ==
    /\ call.op = "pkScript"
    /\ \E checksLen \in BOOLEAN :
          LET a == call.arg[1]
              r == extractPkScriptAddrs(a.version, a.pkScript, checksLen)
          IN call' = [op |-> "extractPkScriptAddrs", arg |-> call.arg,
                      ret |-> r.ret, exc |-> r.exc]
    /\ UNCHANGED <<acct, mem, tok, ret, loop, app>>

ExtractMultisigScriptDetails ==
    /\ call.op = "pkScript"
    /\ \E extractPubKeys \in BOOLEAN :
          LET a == call.arg[1]
          IN call' = [op |-> "extractMultisigScriptDetails", arg |-> call.arg,
                      ret |-> Some(extractMultisigScriptDetails(a.version, a.pkScript,
                                                                extractPubKeys)),
                      exc |-> NoErr]
    /\ UNCHANGED <<acct, mem, tok, ret, loop, app>>

MergeScripts ==
    /\ call.op = "scripts"
    /\ \E checksLen \in BOOLEAN :
          LET a == call.arg[1]
              r == mergeScripts(a.pkScript, a.scriptClass, a.sigScript, a.prevScript,
                                checksLen)
          IN call' = [op |-> "mergeScripts", arg |-> call.arg,
                      ret |-> r.ret, exc |-> r.exc]
    /\ UNCHANGED <<acct, mem, tok, ret, loop, app>>

\* Either a script and a version are at hand, or a script of a known class
\* (the class extractPkScriptAddrs gives it) with a new and a previous
\* signature script.
InitScript ==
    /\ acct = newAccount
    /\ call \in
         {[op |-> "pkScript",
           arg |-> Some([version |-> v, pkScript |-> s, scriptClass |-> 0,
                         sigScript |-> <<>>, prevScript |-> None]),
           ret |-> None, exc |-> NoErr] : v \in {0, 1}, s \in PkScripts}
         \cup
         {[op |-> "scripts",
           arg |-> Some([version |-> 0, pkScript |-> s,
                         scriptClass |-> extractPkScriptAddrs(0, s, FALSE).ret[1][1],
                         sigScript |-> sig, prevScript |-> prev]),
           ret |-> None, exc |-> NoErr] :
             s \in {x \in PkScripts : extractPkScriptAddrs(0, x, FALSE).exc = NoErr},
             sig \in SigScripts,
             prev \in {None} \cup {Some(x) : x \in SigScripts}}
    /\ mem = noBuffers
    /\ tok = noTokenizer
    /\ ret = None
    /\ loop = noLoop
    /\ app = noApp

NextScript ==
    \/ ExtractPkScriptAddrs
    \/ ExtractMultisigScriptDetails
    \/ MergeScripts

SpecScript == InitScript /\ [][NextScript]_vars

\* ------------------------------------------------ actions of the application
\* registerSignal: a screen registers the receiver cb with the user
\* arguments a.
RegisterSignal ==
    /\ ~app.blocked
    /\ Len(app.signalRegistry) < MaxReceivers
    /\ \E sig \in {"BALANCE_SIGNAL", "WORKING_SIGNAL", "DONE_SIGNAL", "SYNC_SIGNAL"},
          a \in {<<>>, <<7>>} :
          app' = [app EXCEPT !.invoked = <<>>,
                             !.signalRegistry =
                                Append(@, [sig |-> sig, cb |-> Len(@) + 1,
                                           sa |-> <<>>, a |-> a])]
    /\ UNCHANGED <<acct, call, mem, tok, ret, loop>>

\* balanceSync in the thread that runs wallet.sync: emitSignal(BALANCE_SIGNAL,
\* balance) starts; it returns at once when nobody receives the signal.
BalanceSync ==
    /\ app.threads > 0
    /\ app.emitter.pc = "idle"
    /\ \E balance \in 1..MaxBalance :
          LET rest == receivers(app, "BALANCE_SIGNAL")
          IN app' = [app EXCEPT !.invoked = <<>>,
                                !.emitter = IF rest = <<>> THEN @
                                            ELSE [pc |-> "clear", sigA |-> <<balance>>,
                                                  rest |-> rest]]
    /\ UNCHANGED <<acct, call, mem, tok, ret, loop>>

\* emitSignal in that thread, sa.clear() for the next receiver.
EmitSignalClear ==
    /\ app.emitter.pc = "clear"
    /\ app' = [app EXCEPT !.invoked = <<>>,
                          !.signalRegistry[Head(app.emitter.rest)].sa = <<>>,
                          !.emitter.pc = "extend"]
    /\ UNCHANGED <<acct, call, mem, tok, ret, loop>>

\* emitSignal in that thread, sa.extend(sigA) and qRawSignal.emit(s): the
\* receiver lives in the main thread, so the slot call is queued.
EmitSignalExtend ==
    /\ app.emitter.pc = "extend"
    /\ Len(app.queue) < MaxQueue
    /\ app' = [app EXCEPT !.invoked = <<>>,
                          !.signalRegistry[Head(app.emitter.rest)].sa = @ \o app.emitter.sigA,
                          !.queue = Append(@, [s |-> Head(app.emitter.rest),
                                               sigA |-> app.emitter.sigA]),
                          !.emitter = IF Tail(@.rest) = <<>>
                                      THEN [pc |-> "idle", sigA |-> <<>>, rest |-> <<>>]
                                      ELSE [@ EXCEPT !.pc = "clear", !.rest = Tail(@)]]
    /\ UNCHANGED <<acct, call, mem, tok, ret, loop>>

\* signal_: the main thread's event loop runs the oldest queued slot call.
\* The tuple s that was emitted is the registry's own, so sigA is what sa
\* holds when the slot runs.
Signal_ ==
    /\ ~app.blocked
    /\ app.queue # <<>>
    /\ LET s == app.signalRegistry[Head(app.queue).s]
       IN app' = [app EXCEPT !.queue = Tail(@),
                             !.invoked = <<[cb |-> s.cb, args |-> s.sa \o s.a,
                                            own |-> Head(app.queue).sigA \o s.a]>>]
    /\ UNCHANGED <<acct, call, mem, tok, ret, loop>>

\* setWallet, called once with the wallet that was loaded or created.
SetWallet ==
    /\ ~app.blocked
    /\ ~app.wallet.set
    /\ \E openAccount \in BOOLEAN, balance \in 1..MaxBalance :
          app' = tryInitSync(
                    emitSignal([app EXCEPT !.invoked = <<>>,
                                           !.wallet = [set |-> TRUE,
                                                       openAccount |-> openAccount]],
                               "BALANCE_SIGNAL", <<balance>>))
    /\ UNCHANGED <<acct, call, mem, tok, ret, loop>>

\* setDCR: the thread of initDCR has returned res.
SetDCR ==
    /\ ~app.blocked
    /\ app.dcr = "connecting"
    /\ \E res \in BOOLEAN :
          app' = IF ~res THEN [app EXCEPT !.invoked = <<>>, !.dcr = "set"]
                 ELSE tryInitSync([app EXCEPT !.invoked = <<>>, !.dcr = "set"])
    /\ UNCHANGED <<acct, call, mem, tok, ret, loop>>

\* wallet.sync returns in its thread.
SyncReturns ==
    /\ app.threads > 0
    /\ app.emitter.pc = "idle"
    /\ app' = [app EXCEPT !.invoked = <<>>, !.threads = @ - 1, !.returned = @ + 1]
    /\ UNCHANGED <<acct, call, mem, tok, ret, loop>>

\* doneSyncing, the callback of a sync thread that has returned:
\* DONE_SIGNAL, wallet.unlock(), wallet.close(), SYNC_SIGNAL.
DoneSyncing ==
    /\ ~app.blocked
    /\ app.returned > 0
    /\ app' = emitSignal([emitSignal([app EXCEPT !.invoked = <<>>, !.returned = @ - 1],
                                     "DONE_SIGNAL", <<>>)
                            EXCEPT !.locked = FALSE, !.unlockCalls = @ + 1,
                                   !.wallet.openAccount = FALSE],
                         "SYNC_SIGNAL", <<>>)
    /\ UNCHANGED <<acct, call, mem, tok, ret, loop>>

InitApp ==
    /\ acct = newAccount
    /\ call = noCall
    /\ mem = noBuffers
    /\ tok = noTokenizer
    /\ ret = None
    /\ loop = noLoop
    /\ app = noApp

NextApp ==
    \/ RegisterSignal
    \/ BalanceSync
    \/ EmitSignalClear
    \/ EmitSignalExtend
    \/ Signal_
    \/ SetWallet
    \/ SetDCR
    \/ SyncReturns
    \/ DoneSyncing

SpecApp == InitApp /\ [][NextApp]_vars

\* ================================================================= claims
IsPrefix(s, t) == Len(s) <= Len(t) /\ \A i \in 1..Len(s) : s[i] = t[i]

RECURSIVE SeqSum(_)
SeqSum(us) == IF us = <<>> THEN 0 ELSE Head(us).satoshis + SeqSum(Tail(us))

RECURSIVE SetSum(_)
SetSum(S) ==
    IF S = {} THEN 0
    ELSE LET u == CHOOSE x \in S : TRUE IN u.satoshis + SetSum(S \ {u})

\* The entries of d whose key is not in K, in their order.
Without(d, K) == SelectSeq(d, LAMBDA u : key(u) \notin K)

\* C1: in every reachable state of an account, open or closed, the external
\* and internal address lists are exactly one longer than their last index,
\* and no call has raised the 'index-address length mismatch' error.
C1_IndexMatchesLength ==
    /\ Len(acct.externalAddresses) = acct.lastExternalIndex + 1
    /\ Len(acct.internalAddresses) = acct.lastInternalIndex + 1
    /\ call.exc \notin
          {"index-address length mismatch",
           "index-address length mismatch while generating change address"}

C1_Witness ==
    /\ acct.extPub # None
    /\ call.op = "generateGapAddresses"
    /\ Len(acct.externalAddresses) = MaxAddrs
    /\ Len(acct.internalAddresses) >= 1
    /\ acct.cursor >= 1

\* C8: on an open account getNextPaymentAddress raises nothing, moves the
\* cursor by exactly 1, extends externalAddresses just far enough for the
\* cursor to be in range and returns the address at the cursor; a
\* paymentAddress call right after it returns the same address and changes
\* no account field.
C8_GetNextPaymentAddress ==
    [][ /\ (call'.op = "getNextPaymentAddress" /\ acct.extPub # None) =>
             /\ call'.exc = NoErr
             /\ acct'.cursor = acct.cursor + 1
             /\ IsPrefix(acct.externalAddresses, acct'.externalAddresses)
             /\ Len(acct'.externalAddresses) =
                   Max(Len(acct.externalAddresses), acct'.cursor + 1)
             /\ 0 <= acct'.cursor
             /\ acct'.cursor < Len(acct'.externalAddresses)
             /\ call'.ret = Some(acct'.externalAddresses[acct'.cursor + 1])
        /\ (/\ call.op = "getNextPaymentAddress"
            /\ call.exc = NoErr
            /\ call'.op = "paymentAddress") =>
             /\ call'.exc = NoErr
             /\ call'.ret = call.ret
             /\ acct' = acct ]_vars

C8_Witness ==
    /\ call.op = "paymentAddress"
    /\ call.exc = NoErr
    /\ acct.extPub # None
    /\ acct.cursor = MaxAddrs - 1
    /\ Len(acct.externalAddresses) = MaxAddrs
    /\ call.ret = Some(acct.externalAddresses[acct.cursor + 1])

\* C9: on an open account generateGapAddresses(gap) leaves the cursor where
\* it is, keeps the existing addresses in place and returns with at least
\* cursor + gap external addresses.
C9_GapAfterCursor ==
    [][ (call'.op = "generateGapAddresses" /\ acct.extPub # None) =>
          /\ acct'.cursor = acct.cursor
          /\ IsPrefix(acct.externalAddresses, acct'.externalAddresses)
          /\ Len(acct'.externalAddresses) >= acct.cursor + call'.arg[1] ]_vars

\* C10: on a closed account generateGapAddresses(gap) raises no error and
\* leaves externalAddresses, lastExternalIndex and cursor unchanged.
C10_ClosedGapIsNoOp ==
    [][ (call'.op = "generateGapAddresses" /\ acct.extPub = None) =>
          /\ call'.exc = NoErr
          /\ acct'.externalAddresses = acct.externalAddresses
          /\ acct'.lastExternalIndex = acct.lastExternalIndex
          /\ acct'.cursor = acct.cursor ]_vars

\* C5: after calcBalance(tipHeight) the stored and returned balance has
\* total = the sum of the values of all UTXOs in the set and available = the
\* sum of the values of those that are spendable at tipHeight, so it is a
\* function of the UTXO set and the tip height alone, and available <= total.
C5_BalanceIsSumOfUTXOs ==
    call.op = "calcBalance" =>
       LET all == Range(acct.utxos)
           spendable == {u \in all : isSpendable(u, call.arg[1])}
       IN /\ call.exc = NoErr
          /\ acct.balance.total = SetSum(all)
          /\ acct.balance.available = SetSum(spendable)
          /\ call.ret = acct.balance
          /\ acct.balance.available <= acct.balance.total

C5_Witness ==
    /\ call.op = "calcBalance"
    /\ Len(acct.utxos) = 3
    /\ 0 < acct.balance.available
    /\ acct.balance.available < acct.balance.total

\* What getUTXOs(requested, approve) returned, against the UTXO set it ran
\* on (which it leaves as it is).
Selected == call.ret[1]
Reached == call.ret[2]
Requested == call.arg[1][1]
Approved ==
    LET approve == call.arg[1][2]
    IN {u \in Range(acct.utxos) : approve = None \/ key(u) \in approve[1]}

SelectionSound ==
    /\ call.exc = NoErr
    /\ Reached <=> SeqSum(Selected) >= Requested
    /\ Range(Selected) \subseteq Approved
    /\ \A i, j \in 1..Len(Selected) : i < j =>
          /\ Selected[i] # Selected[j]
          /\ Selected[i].satoshis <= Selected[j].satoshis
    /\ \A u \in Approved \ Range(Selected) :
          \A i \in 1..Len(Selected) : Selected[i].satoshis <= u.satoshis
    /\ ~Reached => Range(Selected) = Approved

SelectionMinimal ==
    Selected # <<>> =>
       SeqSum(SubSeq(Selected, 1, Len(Selected) - 1)) < Requested

SpendsKey(k) ==
    /\ call'.exc = NoErr
    /\ acct'.utxos = Without(acct.utxos, {k})
    /\ [acct' EXCEPT !.utxos = acct.utxos] = acct
    /\ IF k \in dictKeys(acct.utxos)
       THEN call'.ret = Some(acct.utxos[dictPos(acct.utxos, k)])
       ELSE call'.ret = None /\ acct'.utxos = acct.utxos

SpendsList(ks) ==
    /\ call'.exc = NoErr
    /\ acct'.utxos = Without(acct.utxos, Range(ks))
    /\ [acct' EXCEPT !.utxos = acct.utxos] = acct

\* C7 as stated: each of spendUTXO, spendUTXOs and spendTxidVout removes the
\* entry of a key that is present and returns it, and returns the not-found
\* sentinel and changes nothing when the key is absent.
C7_SpendReturnsEntry ==
    [][ /\ call'.op \in {"spendUTXO", "spendTxidVout"} => SpendsKey(call'.arg[1])
        /\ call'.op = "spendUTXOs" =>
             /\ SpendsList(call'.arg[1])
             /\ (Range(call'.arg[1]) \cap dictKeys(acct.utxos) # {}) <=>
                   call'.ret # None ]_vars

\* C7 amended: spendUTXO and spendTxidVout never fail, remove exactly the
\* entry of the key and return it when it is present, and return the
\* not-found sentinel and leave the set unchanged when it is absent;
\* spendUTXOs never fails, removes exactly the entries of the listed keys
\* that are present and returns nothing.
C7_SpendRemovesEntry ==
    [][ /\ call'.op \in {"spendUTXO", "spendTxidVout"} => SpendsKey(call'.arg[1])
        /\ call'.op = "spendUTXOs" =>
             /\ SpendsList(call'.arg[1])
             /\ call'.ret = None ]_vars

C7_Witness ==
    /\ call.op = "spendTxidVout"
    /\ call.ret # None
    /\ Len(acct.utxos) = 2
    /\ call.arg[1] \notin dictKeys(acct.utxos)

\* The byte length of the token that starts at 1-based position i of s when
\* all of its length bytes are in s, and 0 when they are not.
TokenLen(s, i) ==
    LET b == s[i]
    IN IF b >= OP_DATA_1 /\ b <= OP_DATA_75 THEN 1 + b
       ELSE IF b = OP_PUSHDATA1
       THEN IF i + 1 <= Len(s) THEN 2 + s[i + 1] ELSE 0
       ELSE IF b = OP_PUSHDATA2
       THEN IF i + 2 <= Len(s) THEN 3 + s[i + 1] + 256 * s[i + 2] ELSE 0
       ELSE IF b = OP_PUSHDATA4
       THEN IF i + 4 <= Len(s)
            THEN 5 + s[i + 1] + 256 * s[i + 2] + 65536 * s[i + 3]
                   + 16777216 * s[i + 4]
            ELSE 0
       ELSE 1

\* The token at position i has its length bytes and its whole payload.
Fits(s, i) == TokenLen(s, i) > 0 /\ i + TokenLen(s, i) - 1 <= Len(s)

RECURSIVE WellFormedFrom(_, _)
WellFormedFrom(s, i) ==
    i > Len(s) \/ (Fits(s, i) /\ WellFormedFrom(s, i + TokenLen(s, i)))

RECURSIVE OpcodesFrom(_, _)
OpcodesFrom(s, i) ==
    IF i > Len(s) THEN 0 ELSE 1 + OpcodesFrom(s, i + TokenLen(s, i))

\* C2: when a `while next()` loop over a well-formed script has exited, its
\* body ran once per opcode, the tokens it saw add up to len(script), err is
\* unset and done() is true.
C2_LoopConsumesWellFormedScript ==
    (loop.exited /\ WellFormedFrom(tok.script, 1)) =>
       /\ loop.n = OpcodesFrom(tok.script, 1)
       /\ loop.bytes = Len(tok.script)
       /\ tok.err = NoErr
       /\ done(tok)

\* C3: a next() at a data push whose length bytes or payload run past the
\* end of the script returns false and records an error, done() is then
\* true, and offset, op and data are left as they were.
C3_TruncatedPushFails ==
    [][ (/\ tok.err = NoErr
         /\ tok.offset < Len(tok.script)
         /\ ~Fits(tok.script, tok.offset + 1)) =>
          /\ ret' = Some(FALSE)
          /\ tok'.err # NoErr
          /\ done(tok')
          /\ tok'.offset = tok.offset
          /\ tok'.op = tok.op
          /\ tok'.d = tok.d ]_vars

C3_Witness ==
    /\ tok.err # NoErr
    /\ ret = Some(FALSE)
    /\ tok.offset > 0
    /\ tok.op = Some(OP_DATA_1)
    /\ tok.script[tok.offset + 1] = OP_PUSHDATA2
    /\ Len(tok.script) >= tok.offset + 3

\* C4: once err is set every next() returns false and leaves offset, op,
\* data and err as they are, and next() never returns true with err set.
C4_ErrorIsAbsorbing ==
    [][ /\ tok.err # NoErr => (tok' = tok /\ ret' = Some(FALSE))
        /\ ret' = Some(TRUE) => tok'.err = NoErr ]_vars

C4_Witness ==
    /\ tok.err # NoErr
    /\ loop.again
    /\ loop.n >= 1
    /\ ret = Some(FALSE)
\* C11: when the child derivation raises ParameterRangeError inside
\* generateNextPaymentAddress or getChangeAddress on an open account, the
\* call does not fail: CrazyAddress is appended to the respective list, the
\* respective last index advances by exactly one, CrazyAddress is returned,
\* and no other field of the account changes.
C11_CrazyAddressAbsorbsRangeError ==
    [][ /\ (call'.op = "generateNextPaymentAddress" /\ call'.arg = Some(TRUE)) =>
             /\ call'.exc = NoErr
             /\ call'.ret = Some(CrazyAddress)
             /\ acct' = [acct EXCEPT
                           !.externalAddresses = Append(@, CrazyAddress),
                           !.lastExternalIndex = @ + 1]
        /\ (call'.op = "getChangeAddress" /\ call'.arg = Some(TRUE)) =>
             /\ call'.exc = NoErr
             /\ call'.ret = Some(CrazyAddress)
             /\ acct' = [acct EXCEPT
                           !.internalAddresses = Append(@, CrazyAddress),
                           !.lastInternalIndex = @ + 1] ]_vars

C11_Witness ==
    /\ call.op = "getChangeAddress" /\ call.arg = Some(TRUE)
    /\ CrazyAddress \in Range(acct.internalAddresses)
    /\ CrazyAddress \in Range(acct.externalAddresses)

\* C12: confirmTx(tx, h) removes the txid of tx from the mempool, sets
\* height = h on every UTXO whose txid equals that of tx and on no other,
\* sets maturity = h + CoinbaseMaturity on those UTXOs only when tx looks
\* like a coinbase and leaves maturity untouched otherwise, and neither adds
\* nor removes a UTXO.
C12_ConfirmTxFrame ==
    [][ call'.op = "confirmTx" =>
          LET tx == call'.arg[1][1]
              h == call'.arg[1][2]
          IN /\ tx.txid \notin DOMAIN acct'.mempool
             /\ DOMAIN acct'.mempool = DOMAIN acct.mempool \ {tx.txid}
             /\ \A k \in DOMAIN acct'.mempool : acct'.mempool[k] = acct.mempool[k]
             /\ Len(acct'.utxos) = Len(acct.utxos)
             /\ \A i \in 1..Len(acct.utxos) :
                   LET u == acct.utxos[i]
                       v == acct'.utxos[i]
                   IN IF u.txid = tx.txid
                      THEN /\ v.height = h
                           /\ v.maturity = IF tx.looksLikeCoinbase
                                           THEN Some(h + CoinbaseMaturity)
                                           ELSE u.maturity
                           /\ key(v) = key(u) /\ v.satoshis = u.satoshis
                      ELSE v = u ]_vars

\* A coinbase was confirmed above the height its outputs had, an output of
\* another transaction is still unconfirmed and another transaction is
\* still in the mempool.
C12_Witness ==
    /\ call.op = "confirmTx"
    /\ call.arg[1][1].looksLikeCoinbase
    /\ \E i \in 1..Len(acct.utxos) :
          /\ acct.utxos[i].txid = call.arg[1][1].txid
          /\ acct.utxos[i].height = MaxHeight
          /\ acct.utxos[i].maturity = Some(MaxHeight + CoinbaseMaturity)
    /\ \E i \in 1..Len(acct.utxos) :
          /\ acct.utxos[i].txid # call.arg[1][1].txid
          /\ acct.utxos[i].height = -1
    /\ DOMAIN acct.mempool # {}

\* C13: close() zeroes the key and pubKey buffers of the private key and of
\* both branch public keys and then drops the three keys, so that no buffer
\* loses its reference with key bytes in it; it leaves every ledger field
\* unchanged and is a no-op on an account that is already closed.
C13_CloseZeroesAndDrops ==
    [][ call'.op = "close" =>
          /\ acct' = [acct EXCEPT !.privKey = None, !.extPub = None, !.intPub = None]
          /\ mem'.live = {}
          /\ mem'.leaked = mem.leaked
          /\ acct.privKey = None => (acct' = acct /\ mem' = mem) ]_vars

\* An open account with addresses and a tracked transaction was closed.
C13_Witness ==
    /\ call.op = "close" /\ call.arg = Some(TRUE)
    /\ acct.privKey = None /\ mem.live = {}
    /\ acct.lastExternalIndex >= 1 /\ acct.lastInternalIndex >= 0
    /\ DOMAIN acct.txs # {}
    /\ acct.cursor >= 1

\* C15: newMaster fails with the key-range error exactly when the secret,
\* read as a big-endian integer, is 0 or at least the curve order; otherwise
\* it returns a private key with depth 0, childNum 0 and an all-zero parent
\* fingerprint, and every returned scalar is above 0 and below the order.
C15_MasterKeyRange ==
    (call.op = "newMaster" /\ call.exc # "AssertionError") =>
        LET secretInt == call.arg[1][2][1]
        IN /\ (call.exc = "KeyLengthException") <=>
                 (secretInt = 0 \/ secretInt >= CurveN)
           /\ call.exc = NoErr =>
                 /\ call.ret[1].isPrivate
                 /\ call.ret[1].depth = 0
                 /\ call.ret[1].childNum = 0
                 /\ call.ret[1].parentFP = 0
                 /\ 0 < call.ret[1].key /\ call.ret[1].key < CurveN

\* The outcome of deriving the children along a path of indices from a key:
\* the key reached, or the error of the first derivation that fails.
RECURSIVE childPath(_, _)
childPath(k, path) ==
    IF path = <<>> THEN [ret |-> Some(k), exc |-> NoErr]
    ELSE LET r == child(k, Head(path))
         IN IF r.exc # NoErr THEN r ELSE childPath(r.ret[1], Tail(path))

NeuterOutcome(r) ==
    IF r.exc # NoErr THEN r ELSE [ret |-> Some(neuter(r.ret[1])), exc |-> NoErr]

NonHardenedPaths ==
    {<<i>> : i \in 0..(HardenedKeyStart - 1)}
      \cup {<<i, j>> : i, j \in 0..(HardenedKeyStart - 1)}

\* C16: for every master key newMaster returns, and every path of one or two
\* non-hardened indices, deriving along the path from the neutered key gives
\* the same public key as neutering the key derived along the path.
C16_PublicPrivateDerivationAgree ==
    (call.op = "newMaster" /\ call.exc = NoErr) =>
        \A path \in NonHardenedPaths :
           childPath(neuter(call.ret[1]), path)
             = NeuterOutcome(childPath(call.ret[1], path))

\* A master key whose children 0 and 0/1 exist.
C16_Witness ==
    /\ call.op = "newMaster" /\ call.exc = NoErr
    /\ childPath(call.ret[1], <<0, 1>>).exc = NoErr
    /\ childPath(neuter(call.ret[1]), <<0, 1>>).exc = NoErr
    /\ childPath(neuter(call.ret[1]), <<0, 1>>).ret[1].depth = 2

\* C14: when createNewAccountManager returns, every intermediate private
\* byte buffer (the master key, the legacy and SLIP0044 coin-type private
\* keys, both account private keys, and the private and script symmetric
\* keys) has been zeroed: none was left behind with key bytes in it.
C14_IntermediatesZeroed ==
    (call.op = "createNewAccountManager" /\ call.exc = NoErr) =>
        mem.leaked \cap (LocalPrivateKeys
                           \cup {<<"cryptoKeyPriv", "b">>, <<"cryptoKeyScript", "b">>}) = {}

\* C17: signRFC6979 fails with the zero-component error whenever r is zero
\* or s = (privateKey * r + hash) * k^-1 mod N is zero, and every signature
\* it returns has 0 < r < N and 0 < s < N.
C17_SignatureComponentsInRange ==
    call.op = "signRFC6979" =>
        LET privateKey == call.arg[1][1]
            inHash == call.arg[1][2]
            k == nonceRFC6979(privateKey, inHash)
            r == scalarBaseMult(k)[1] % CurveN
            s == ((privateKey * r + hashToInt(inHash)) * modInv(k, CurveN)) % CurveN
        IN /\ (r = 0 \/ s = 0) => call.exc # NoErr
           /\ call.exc = NoErr =>
                 /\ 0 < call.ret[1].r /\ call.ret[1].r < CurveN
                 /\ 0 < call.ret[1].s /\ call.ret[1].s < CurveN

\* The bytes of an integer are canonical: there is a first byte, its top bit
\* is clear, and it is zero only when the top bit of the next byte is set.
CanonicalBytes(b) ==
    /\ Len(b) >= 1
    /\ b[1] < 128
    /\ b[1] = 0 => (Len(b) > 1 /\ b[2] >= 128)

WithSequence(tx, j, q) == [tx EXCEPT !.txIn[j + 1].sequence = q]
WithOutPoint(tx, j, h) == [tx EXCEPT !.txIn[j + 1].previousOutPoint.hash = h]
WithValueAndPkScript(tx, j, o) ==
    [tx EXCEPT !.txOut[j + 1].value = o.value, !.txOut[j + 1].pkScript = o.pkScript]
WithoutLastOutput(tx) == [tx EXCEPT !.txOut = SubSeq(@, 1, Len(@) - 1)]
WithOutput(tx, o) == [tx EXCEPT !.txOut = Append(@, o)]

\* Every change of one output: its value and script, one output more or less.
OutputChanges(tx) ==
    {WithValueAndPkScript(tx, j, o) : j \in 0..(Len(tx.txOut) - 1), o \in TxOutputs}
      \cup {WithOutput(tx, o) : o \in TxOutputs}
      \cup (IF tx.txOut = <<>> THEN {} ELSE {WithoutLastOutput(tx)})

\* Every change of the sequence number of one input other than idx.
OtherSequenceChanges(tx, idx) ==
    {WithSequence(tx, j, q) : j \in (0..(Len(tx.txIn) - 1)) \ {idx}, q \in SequenceNumbers}

\* Every change of the outpoint of one input other than idx.
OtherOutPointChanges(tx, idx) ==
    {WithOutPoint(tx, j, h) : j \in (0..(Len(tx.txIn) - 1)) \ {idx}, h \in OutPointHashes}

\* Every change of the value or script of one output other than idx, and of
\* the outputs after idx: one more, or the last one less.
OtherOutputChanges(tx, idx) ==
    {WithValueAndPkScript(tx, j, o) :
        j \in (0..(Len(tx.txOut) - 1)) \ {idx}, o \in TxOutputs}
      \cup (IF Len(tx.txOut) > idx THEN {WithOutput(tx, o) : o \in TxOutputs} ELSE {})
      \cup (IF Len(tx.txOut) > idx + 1 THEN {WithoutLastOutput(tx)} ELSE {})

\* C19: calcSignatureHash commits only to what the hash type selects.  Under
\* SigHashNone the result is unchanged by a change to the outputs and to the
\* sequence number of another input; under SigHashSingle by the value and
\* script of an output at another index and by the outputs after idx; under
\* SigHashAnyOneCanPay by the outpoint and sequence number of another input.
C19_CommitsOnlyToSelected ==
    call.op = "calcSignatureHash" =>
        LET a == call.arg[1]
            masked == a.hashType % 32
            same(tx2) ==
                LET r == calcSignatureHash(a.script, a.hashType, tx2, a.idx, None)
                IN r.ret = call.ret /\ r.exc = call.exc
        IN /\ masked = SigHashNone =>
                \A tx2 \in OutputChanges(a.tx) \cup OtherSequenceChanges(a.tx, a.idx) :
                   same(tx2)
           /\ masked = SigHashSingle =>
                \A tx2 \in OtherOutputChanges(a.tx, a.idx) : same(tx2)
           /\ a.hashType >= SigHashAnyOneCanPay =>
                \A tx2 \in OtherSequenceChanges(a.tx, a.idx)
                              \cup OtherOutPointChanges(a.tx, a.idx) : same(tx2)

\* A hash was computed under SigHashSingle for the second of two inputs of a
\* transaction with two outputs.
C19_Witness ==
    /\ call.op = "calcSignatureHash" /\ call.exc = NoErr
    /\ call.arg[1].hashType = SigHashSingle
    /\ call.arg[1].idx = 1
    /\ Len(call.arg[1].tx.txIn) = 2 /\ Len(call.arg[1].tx.txOut) = 2
    /\ call.arg[1].tx.txIn[1].sequence # 0
    /\ call.arg[1].tx.txOut[1].pkScript # <<>>

\* The results of calcSignatureHash for the call's script, hash type and
\* transaction at another valid input index, with and without a cached prefix.
OtherIndexResults ==
    LET a == call.arg[1]
    IN {calcSignatureHash(a.script, a.hashType, a.tx, idx2, cachedPrefix) :
           idx2 \in (0..(Len(a.tx.txIn) - 1)) \ {a.idx},
           cachedPrefix \in CachedPrefixes}

\* C20 as stated: for a transaction with at least two inputs and hash type
\* SigHashAll, calcSignatureHash with the same script and transaction hashes
\* a different preimage for any two different valid input indices, with or
\* without a cached prefix.
C20_IndexChangesPreimage ==
    (/\ call.op = "calcSignatureHash"
     /\ call.arg[1].hashType = SigHashAll
     /\ Len(call.arg[1].tx.txIn) >= 2)
        => \A r \in OtherIndexResults : r.ret # call.ret

\* C20 amended: the preimages differ for two different valid input indices
\* when the script is not empty; for the empty script every input index
\* hashes the same preimage.
C20_IndexChangesPreimageOfNonEmptyScript ==
    (/\ call.op = "calcSignatureHash"
     /\ call.arg[1].hashType = SigHashAll
     /\ Len(call.arg[1].tx.txIn) >= 2)
        => \A r \in OtherIndexResults :
              /\ r.exc = NoErr /\ call.exc = NoErr
              /\ (r.ret = call.ret) <=> (call.arg[1].script = <<>>)

\* A hash was computed under SigHashAll with a script that is not empty for
\* the first of two inputs.
C20_Witness ==
    /\ call.op = "calcSignatureHash" /\ call.exc = NoErr
    /\ call.arg[1].hashType = SigHashAll
    /\ call.arg[1].script # <<>>
    /\ call.arg[1].idx = 0
    /\ Len(call.arg[1].tx.txIn) = 2

\* C24: every key buffer that open() places in memory is zeroed no later
\* than the next close(): after a close no buffer of an earlier open holds
\* key bytes, also when open was called twice with no close between.
C24_CloseLeavesNoKeyBytes ==
    call.op = "close" => (mem.live = {} /\ mem.leaked = {})

\* C25: a failed address operation leaves the cursor where it was: when
\* getNextPaymentAddress raises, cursor has the value it had before the call
\* and is still below the number of external addresses.
C25_FailedNextKeepsCursor ==
    [][ (call'.op = "getNextPaymentAddress" /\ call'.exc # NoErr) =>
           /\ acct'.cursor = acct.cursor
           /\ (acct.cursor < Len(acct.externalAddresses)
                 => acct'.cursor < Len(acct'.externalAddresses)) ]_vars

\* C26: in every tokenizer state 0 <= offset <= len(script); a next() never
\* decreases the offset and a next() that returns true strictly increases
\* it, so the body of a `while next()` loop runs at most len(script) times.
C26_OffsetBoundedAndIncreasing ==
    [][ /\ 0 <= tok.offset /\ tok.offset <= Len(tok.script)
        /\ 0 <= tok'.offset /\ tok'.offset <= Len(tok'.script)
        /\ tok'.offset >= tok.offset
        /\ ret' = Some(TRUE) => tok'.offset > tok.offset
        /\ loop'.n <= Len(tok'.script) ]_vars

\* A loop over a script of the greatest length ran its body more than once,
\* saw a data push and reached the end of the script.
C26_Witness ==
    /\ ret = Some(TRUE)
    /\ ~loop.exited /\ loop.n >= 2
    /\ Len(tok.script) = MaxScriptLen
    /\ tok.offset = Len(tok.script)
    /\ tok.d # None /\ tok.d # Some(<<>>)

\* C27: calcSignatureHash rejects a script that does not parse: whenever
\* checkScriptParses reports an error for the script, the call fails and
\* returns no hash.
C27_UnparsableScriptIsRejected ==
    (call.op = "calcSignatureHash"
       /\ checkScriptParses(call.arg[1].script) # NoErr)
        => (call.exc # NoErr /\ call.ret = None)

\* The tokens of a well-formed script from 1-based position i on, each with
\* its opcode and the data it pushes (none for an opcode without payload).
RECURSIVE TokensFrom(_, _)
TokensFrom(s, i) ==
    IF i > Len(s) THEN <<>>
    ELSE LET b == s[i]
             header == IF b = OP_PUSHDATA1 THEN 2
                       ELSE IF b = OP_PUSHDATA2 THEN 3
                       ELSE IF b = OP_PUSHDATA4 THEN 5
                       ELSE 1
         IN <<[op |-> b, data |-> SubSeq(s, i + header, i + TokenLen(s, i) - 1)]>>
              \o TokensFrom(s, i + TokenLen(s, i))

StakeClassOf(op) ==
    IF op = OP_SSTX THEN StakeSubmissionTy
    ELSE IF op = OP_SSGEN THEN StakeGenTy
    ELSE IF op = OP_SSRTX THEN StakeRevocationTy
    ELSE StakeSubChangeTy

\* s is op followed by the pay-to-pubkey-hash template, or the pay-to-script-
\* hash template tagged with op.
IsStakePubKeyHash(s, op) ==
    /\ Len(s) = 26
    /\ SubSeq(s, 1, 4) = <<op, OP_DUP, OP_HASH160, OP_DATA_20>>
    /\ SubSeq(s, 25, 26) = <<OP_EQUALVERIFY, OP_CHECKSIG>>

IsStakeScriptHash(s, op) ==
    /\ Len(s) = 24
    /\ SubSeq(s, 1, 3) = <<op, OP_HASH160, OP_DATA_20>>
    /\ s[24] = OP_EQUAL

\* C21: extractPkScriptAddrs of a version-0 script that is a stake opcode
\* followed by the pay-to-pubkey-hash template, or the stake-tagged pay-to-
\* script-hash template, returns the stake class of that opcode, exactly one
\* address made of the 20 bytes in the script, and 1 required signature, for
\* each of OP_SSTX, OP_SSGEN, OP_SSRTX and OP_SSTXCHANGE.
C21_StakeScriptsGiveClassAndAddress ==
    \A op \in {OP_SSTX, OP_SSGEN, OP_SSRTX, OP_SSTXCHANGE} :
       LET s == call.arg[1].pkScript
       IN (call.op = "extractPkScriptAddrs" /\ call.arg[1].version = 0) =>
             /\ IsStakePubKeyHash(s, op) =>
                   /\ call.exc = NoErr
                   /\ call.ret = Some(<<StakeClassOf(op),
                                        <<[type |-> "AddressPubKeyHash",
                                           hash |-> pyObject("ByteArray", SubSeq(s, 5, 24))]>>,
                                        1>>)
             /\ IsStakeScriptHash(s, op) =>
                   /\ call.exc = NoErr
                   /\ call.ret = Some(<<StakeClassOf(op),
                                        <<[type |-> "AddressScriptHash",
                                           hash |-> pyObject("ByteArray", SubSeq(s, 4, 23))]>>,
                                        1>>)

\* The value of a small-integer opcode (OP_0, OP_1 .. OP_16), -1 for another.
SmallIntOf(op) ==
    IF op = OP_0 THEN 0 ELSE IF op >= OP_1 /\ op <= OP_16 THEN op - OP_1 + 1 ELSE -1

\* A token that pushes a strictly encoded public key.
IsPubKeyPush(token) ==
    /\ token.op >= OP_DATA_1 /\ token.op <= OP_PUSHDATA4
    /\ \/ Len(token.data) = 33 /\ token.data[1] \in {2, 3}
       \/ Len(token.data) = 65 /\ token.data[1] = 4

\* s tokenizes as smallInt, k public key pushes, the smallInt k and
\* OP_CHECKMULTISIG.
IsMultisigShape(s) ==
    /\ WellFormedFrom(s, 1)
    /\ LET ts == TokensFrom(s, 1)
           n == Len(ts)
       IN /\ n >= 3
          /\ SmallIntOf(ts[1].op) >= 0
          /\ \A i \in 2..(n - 2) : IsPubKeyPush(ts[i])
          /\ SmallIntOf(ts[n - 1].op) = n - 3
          /\ ts[n].op = OP_CHECKMULTISIG

\* C22: extractMultisigScriptDetails reports valid exactly for version 0 and
\* a script that tokenizes as a small integer, k >= 0 pushes of strictly
\* encoded public keys, the small integer k and a final OP_CHECKMULTISIG;
\* requiredSigs and numPubKeys are then the two integers.
C22_ValidExactlyForMultisigShape ==
    call.op = "extractMultisigScriptDetails" =>
       LET a == call.arg[1]
           details == call.ret[1]
           ts == TokensFrom(a.pkScript, 1)
       IN /\ details.valid <=> (a.version = 0 /\ IsMultisigShape(a.pkScript))
          /\ details.valid =>
                /\ details.requiredSigs = Some(SmallIntOf(ts[1].op))
                /\ details.numPubKeys = Len(ts) - 3

\* C23: for a class other than ScriptHashTy and MultiSigTy mergeScripts returns
\* sigScript when prevScript is None or shorter than sigScript and prevScript
\* otherwise, a tie included; for MultiSigTy it raises the unimplemented error
\* and returns nothing.
C23_MergeKeepsTheLongerScript ==
    call.op = "mergeScripts" =>
       LET a == call.arg[1]
       IN /\ a.scriptClass \notin {ScriptHashTy, MultiSigTy} =>
                /\ call.exc = NoErr
                /\ call.ret = IF a.prevScript = None
                                   \/ Len(a.prevScript[1]) < Len(a.sigScript)
                              THEN Some(a.sigScript)
                              ELSE a.prevScript
          /\ a.scriptClass = MultiSigTy =>
                /\ call.exc = "multisig signing unimplemented"
                /\ call.ret = None

\* A merge for a pay-to-pubkey-hash script whose two candidate scripts differ
\* and are equally long has returned the previous one.
C23_Witness ==
    /\ call.op = "mergeScripts"
    /\ call.arg[1].scriptClass = PubKeyHashTy
    /\ call.arg[1].prevScript # None
    /\ call.arg[1].prevScript # Some(call.arg[1].sigScript)
    /\ Len(call.arg[1].prevScript[1]) = Len(call.arg[1].sigScript)
    /\ Len(call.arg[1].sigScript) > 0
    /\ call.ret = call.arg[1].prevScript

\* C28: mergeScripts for ScriptHashTy with a new and a previous signature
\* script that are both non-empty and parse returns, without an error, a
\* script that ends with the push of the redeem script, the data of the last
\* push of sigScript.
C28_ScriptHashMergeReturnsWithRedeemScript ==
    LET a == call.arg[1]
    IN (/\ call.op = "mergeScripts"
        /\ a.scriptClass = ScriptHashTy
        /\ a.sigScript # <<>> /\ WellFormedFrom(a.sigScript, 1)
        /\ a.prevScript # None /\ a.prevScript # Some(<<>>)
        /\ WellFormedFrom(a.prevScript[1], 1))
         => /\ call.exc = NoErr
            /\ call.ret # None
            /\ LET ts == TokensFrom(a.sigScript, 1)
                   push == addData(ts[Len(ts)].data)
               IN /\ Len(call.ret[1]) >= Len(push)
                  /\ SubSeq(call.ret[1], Len(call.ret[1]) - Len(push) + 1,
                            Len(call.ret[1])) = push

\* C29: every callback is called with the arguments of the emission it is
\* called for, followed by the user arguments it was registered with.
C29_CallbackSeesItsOwnEmission ==
    \A i \in 1..Len(app.invoked) : app.invoked[i].args = app.invoked[i].own

\* C30: wallet.lock() is never called while the lock of an earlier
\* tryInitSync is still held, no second sync thread is started, and the
\* unlock() calls never outnumber the lock() calls.
C30_OneSyncAtATime ==
    [][ /\ app'.lockCalls # app.lockCalls => ~app.locked
        /\ app'.threads + app'.returned <= 1
        /\ app'.lockCalls - app'.unlockCalls \in {0, 1} ]_vars

====
